---- MODULE Spec2Model ----
(***************************************************************************)
(* Device session of midea_auto_cloud (core/device.py, class MiedaDevice): *)
(* the attribute store, the status merge (_parse_cloud_message and the     *)
(* local variant inside _parse_message), the subscriber fan-out            *)
(* (_update_all) and the control operations (set_attribute,                *)
(* set_attributes, refresh_status).                                        *)
(*                                                                         *)
(* Python values are tagged records (None, int, str) so that values of     *)
(* different Python types compare unequal instead of being incomparable.   *)
(* A Python dict whose iteration order is irrelevant is a TLA+ function on *)
(* its key set; the outbound control payload keeps its insertion order     *)
(* (a sequence of key/value pairs) because _convert_to_nested_structure    *)
(* depends on it.                                                          *)
(***************************************************************************)
EXTENDS Integers, Sequences, FiniteSets, TLC

VARIABLES
    cfg,          \* what the set_* configuration calls and the constructor fixed
    attributes,   \* self._attributes
    updates,      \* Len(self._updates): callbacks registered so far
    inbox,        \* per registered callback: the mappings it was called with
                  \* during the last operation
    last,         \* observation of the last operation (history variable)
    buffer,       \* self._buffer: received bytes not yet cut into frames
    security,     \* self._security: whether it holds a session key
    tasks,        \* the refresh_status coroutines in flight on the event loop
    wire,         \* the peer's byte stream: what it sent, what it has left to
                  \* send, the frames _parse_message cut from it so far
    login_locks,  \* _LOGIN_LOCKS (__init__.py): one asyncio.Lock per account
    cloud_cache,  \* _CLOUD_CACHE (__init__.py): the cached session per account
    callers,      \* the _get_or_login_cloud coroutines started so far
    entries,      \* hass.config_entries: the config entries of the domain
    flows         \* the config flows started so far (ConfigFlow objects)

\* the state of one device session
devicevars == <<cfg, attributes, updates, inbox, last, buffer, security,
                tasks, wire>>

\* the state of the host integration (module globals and the entry registry)
hostvars == <<login_locks, cloud_cache, callers, entries, flows>>

vars == <<cfg, attributes, updates, inbox, last, buffer, security,
          tasks, wire, login_locks, cloud_cache, callers, entries, flows>>

----------------------------------------------------------------------------
(* Bounds of the model *)

\* largest integer a reported or requested attribute value takes
MaxInt == 2

\* most callbacks registered through register_update
MaxUpdates == 1

\* most keys in one reported status mapping
MaxKeys == 2

\* most keys in a flat mapping handed to _convert_to_nested_structure alone
MaxFlat == 3

----------------------------------------------------------------------------
(* Python values *)

None == [t |-> "none"]

PyInt(n) == [t |-> "int", v |-> n]

PyStr(s) == [t |-> "str", s |-> s]

IsInt(x) == x.t = "int"

IsStr(x) == x.t = "str"

\* device type of the dual-chamber washer (self._device_type == 0xD9)
D9 == 217

\* any other device type (0xAC)
OtherType == 172

----------------------------------------------------------------------------
(* dicts as functions *)

Empty == [k \in {} |-> None]

Put(d, k, v) == [j \in DOMAIN d \cup {k} |-> IF j = k THEN v ELSE d[j]]

\* dict.get(k, dflt)
Get(d, k, dflt) == IF k \in DOMAIN d THEN d[k] ELSE dflt

\* d1 overridden by d2
Merge(d1, d2) ==
    [j \in DOMAIN d1 \cup DOMAIN d2 |-> IF j \in DOMAIN d2 THEN d2[j] ELSE d1[j]]

RECURSIVE SeqToSet(_)
SeqToSet(s) == IF s = <<>> THEN {} ELSE {Head(s)} \cup SeqToSet(Tail(s))

----------------------------------------------------------------------------
(* CalculateRule: {"lvalue": "[a]", "rvalue": <expression over [name]s>}.  *)
(* refs are the bracketed names of the rvalue; rvalue names the expression *)
(* shape: "mul2" is "[r1]*2", "sum" is "[r1]+[r2]".                        *)

RuleMul == [lvalue |-> "a", rvalue |-> "mul2", refs |-> <<"b">>]

RuleSum == [lvalue |-> "a", rvalue |-> "sum", refs |-> <<"b", "c">>]

\* rvalue.find(f"[{s}]") >= 0
RvalueMentions(rule, s) == s \in SeqToSet(rule.refs)

\* exec of "<target>[lvalue] = <rvalue with every [name] read from env>":
\* ok = FALSE when the exec raises (KeyError for a name env lacks, TypeError
\* for None or mixed operand types)
EvalRvalue(rule, env) ==
    IF ~(SeqToSet(rule.refs) \subseteq DOMAIN env)
    THEN [ok |-> FALSE, val |-> None]
    ELSE LET x == env[rule.refs[1]] IN
         IF rule.rvalue = "mul2"
         THEN IF IsInt(x) THEN [ok |-> TRUE, val |-> PyInt(x.v * 2)]
              ELSE IF IsStr(x) THEN [ok |-> TRUE, val |-> PyStr(x.s \o x.s)]
              ELSE [ok |-> FALSE, val |-> None]
         ELSE LET y == env[rule.refs[2]] IN
              IF IsInt(x) /\ IsInt(y) THEN [ok |-> TRUE, val |-> PyInt(x.v + y.v)]
              ELSE IF IsStr(x) /\ IsStr(y) THEN [ok |-> TRUE, val |-> PyStr(x.s \o y.s)]
              ELSE [ok |-> FALSE, val |-> None]

----------------------------------------------------------------------------
(* _update_all: every registered callback is called with the mapping *)

UpdateAll(boxes, status) == [i \in DOMAIN boxes |-> Append(boxes[i], status)]

----------------------------------------------------------------------------
(* _parse_cloud_message *)

\* a seeding that skips the attributes the store holds None for
SeedDefaultsAbsentOnly(store, defaults) ==
    [k \in {j \in DOMAIN defaults : j \notin DOMAIN store} |-> defaults[k]]

\* lines 481-484: defaults of attributes that are absent or None
SeedDefaults(store, defaults) ==
    [k \in {j \in DOMAIN defaults : j \notin DOMAIN store \/ store[j] = None}
        |-> defaults[k]]

\* lines 487-491: reported keys that are new or differ from the store
Overlay(store, staged, status) ==
    Merge(staged,
          [k \in {j \in DOMAIN status : j \notin DOMAIN store \/ store[j] # status[j]}
              |-> status[k]])

\* lines 511-526: the two exec calls, each in its own try block; e1 is the
\* rvalue read from the store, e2 the rvalue read from new_status
AssignCloud(st, rule, e1, e2) ==
    [store |-> IF e1.ok THEN Put(st.store, rule.lvalue, e1.val) ELSE st.store,
     delta |-> IF e2.ok THEN Put(st.delta, rule.lvalue, e2.val) ELSE st.delta]

\* lines 494-526 for one rule: st = [store, delta]
DeriveCloudOne(st, rule) ==
    IF \E s \in DOMAIN st.delta : RvalueMentions(rule, s)
    THEN AssignCloud(st, rule, EvalRvalue(rule, st.store), EvalRvalue(rule, st.delta))
    ELSE st

RECURSIVE DeriveCloud(_, _)
DeriveCloud(st, rules) ==
    IF rules = <<>> THEN st
    ELSE DeriveCloud(DeriveCloudOne(st, Head(rules)), Tail(rules))

\* lines 492-526
DeriveCloudAll(store, staged) ==
    IF staged # Empty
    THEN DeriveCloud([store |-> store, delta |-> staged], cfg.calculate_get)
    ELSE [store |-> store, delta |-> staged]

\* lines 527-529: what the method leaves behind: the store, the callbacks'
\* inboxes, and the record of the merge (staged: new_status at line 491,
\* delta: new_status at line 527)
CloudCommit(store, boxes, status, update, staged, d) ==
    [store |-> d.store,
     boxes |-> IF staged # Empty /\ update THEN UpdateAll(boxes, d.delta) ELSE boxes,
     merge |-> [path |-> "cloud", status |-> status, update |-> update,
                pre |-> store, staged |-> staged, delta |-> d.delta,
                post |-> d.store]]

CloudMerge(store, boxes, status, update, staged) ==
    CloudCommit(store, boxes, status, update, staged, DeriveCloudAll(store, staged))

ParseCloudMessage(store, boxes, status, update) ==
    CloudMerge(store, boxes, status, update,
               Overlay(store, SeedDefaults(store, cfg.default_values), status))

----------------------------------------------------------------------------
(* The merge inside _parse_message (lines 553-586), applied to the mapping *)
(* the codec decoded from a local frame                                    *)

\* lines 554-558: every reported key that is new or differs is written to the
\* store and staged
LocalOverlay(store, status) ==
    [k \in {j \in DOMAIN status : j \notin DOMAIN store \/ store[j] # status[j]}
        |-> status[k]]

\* lines 578-584: both exec calls read the store and share one try block
AssignLocal(st, rule, e) ==
    IF e.ok
    THEN [store |-> Put(st.store, rule.lvalue, e.val),
          delta |-> Put(st.delta, rule.lvalue, e.val)]
    ELSE st

\* lines 560-584 for one rule
DeriveLocalOne(st, rule) ==
    IF \E s \in DOMAIN st.delta : RvalueMentions(rule, s)
    THEN AssignLocal(st, rule, EvalRvalue(rule, st.store))
    ELSE st

RECURSIVE DeriveLocal(_, _)
DeriveLocal(st, rules) ==
    IF rules = <<>> THEN st
    ELSE DeriveLocal(DeriveLocalOne(st, Head(rules)), Tail(rules))

DeriveLocalAll(store, staged) ==
    IF staged # Empty
    THEN DeriveLocal([store |-> Merge(store, staged), delta |-> staged],
                     cfg.calculate_get)
    ELSE [store |-> store, delta |-> staged]

LocalCommit(store, boxes, status, update, staged, d) ==
    [store |-> d.store,
     boxes |-> IF staged # Empty /\ update THEN UpdateAll(boxes, d.delta) ELSE boxes,
     merge |-> [path |-> "local", status |-> status, update |-> update,
                pre |-> store, staged |-> staged, delta |-> d.delta,
                post |-> d.store]]

LocalMerge(store, boxes, status, update, staged) ==
    LocalCommit(store, boxes, status, update, staged, DeriveLocalAll(store, staged))

ParseLocalStatus(store, boxes, status, update) ==
    LocalMerge(store, boxes, status, update, LocalOverlay(store, status))

----------------------------------------------------------------------------
(* The outbound control payload: a Python dict in insertion order *)

RECURSIVE OdHas(_, _)
OdHas(od, k) == od # <<>> /\ (Head(od).k = k \/ OdHas(Tail(od), k))

\* od[k] = v: an existing key keeps its place
OdSet(od, k, v) ==
    IF OdHas(od, k)
    THEN [i \in DOMAIN od |-> IF od[i].k = k THEN [k |-> k, v |-> v] ELSE od[i]]
    ELSE Append(od, [k |-> k, v |-> v])

RECURSIVE OdGet(_, _)
OdGet(od, k) == IF Head(od).k = k THEN Head(od).v ELSE OdGet(Tail(od), k)

\* key.split('.') for the attribute names of the model
Split(key) ==
    IF key = "x.y" THEN <<"x", "y">>
    ELSE IF key = "x.z" THEN <<"x", "z">>
    ELSE IF key = "x.y.w" THEN <<"x", "y", "w">>
    ELSE <<key>>

Leaf(v) == [leaf |-> v]

Sub(d) == [sub |-> d]

IsSub(n) == "sub" \in DOMAIN n

\* line 166 and its return: the child dict r replaces entry k of d
Descend(d, k, r) == [ok |-> r.ok, d |-> Put(d, k, Sub(r.d))]

\* lines 163-169 for one dotted key: d is the dict reached so far, path what
\* is left of the key. ok = FALSE when a path segment already holds a scalar
\* (the membership test or the item assignment on it raises)
RECURSIVE SetPath(_, _, _)
SetPath(d, path, v) ==
    IF Len(path) = 1
    THEN [ok |-> TRUE, d |-> Put(d, path[1], Leaf(v))]
    ELSE IF path[1] \notin DOMAIN d
    THEN Descend(d, path[1], SetPath(Empty, Tail(path), v))
    ELSE IF ~IsSub(d[path[1]])
    THEN [ok |-> FALSE, d |-> d]
    ELSE Descend(d, path[1], SetPath(d[path[1]].sub, Tail(path), v))

\* lines 157-172 for one item
SetItem(nested, item) ==
    IF Len(Split(item.k)) > 1
    THEN SetPath(nested, Split(item.k), item.v)
    ELSE [ok |-> TRUE, d |-> Put(nested, item.k, Leaf(item.v))]

\* the loop of _convert_to_nested_structure from the result r of the items
\* before od
RECURSIVE ConvertFrom(_, _)
ConvertFrom(r, od) ==
    IF od = <<>> \/ ~r.ok THEN r
    ELSE ConvertFrom(SetItem(r.d, Head(od)), Tail(od))

\* _convert_to_nested_structure
ConvertToNestedStructure(od) == ConvertFrom([ok |-> TRUE, d |-> Empty], od)

\* the node a dotted name addresses in a nested payload
RECURSIVE Lookup(_, _)
Lookup(d, path) ==
    IF path[1] \notin DOMAIN d THEN [found |-> FALSE]
    ELSE IF Len(path) = 1 THEN [found |-> TRUE, node |-> d[path[1]]]
    ELSE IF IsSub(d[path[1]]) THEN Lookup(d[path[1]].sub, Tail(path))
    ELSE [found |-> FALSE]

----------------------------------------------------------------------------
(* What an operation did, in order: one record per call it made to the     *)
(* cloud relay, the codec or the merge, with what the call answered.       *)
(* ms = [store, boxes, trace, raised, templates]                           *)
(* is the session while an operation runs; raised = TRUE once an exception *)
(* is propagating; templates is self._queries.                             *)

Log(ms, e) == [ms EXCEPT !.trace = Append(@, e)]

Raise(ms) == [ms EXCEPT !.raised = TRUE]

\* the coroutine is cancelled while it awaits: CancelledError is raised at
\* the await
Cancel(ms) == Raise(Log(ms, [ev |-> "cancelled"]))

\* an exception that except Exception does not catch is propagating
Cancelled(ms) ==
    /\ ms.raised
    /\ ms.trace # <<>>
    /\ ms.trace[Len(ms.trace)] = [ev |-> "cancelled"]

WithStore(ms, store) == [ms EXCEPT !.store = store]

HasCloud == cfg.cloud \in {"msmart", "meiju"}

\* the session after a call r of _parse_cloud_message
AfterMerge(ms, r) ==
    [store |-> r.store, boxes |-> r.boxes,
     trace |-> Append(ms.trace, [ev |-> "merge", m |-> r.merge]),
     raised |-> FALSE, templates |-> ms.templates]

\* lines 590-597: out is what the relay and the codec answer to the command:
\* [kind |-> "noreply"], [kind |-> "raise"] or [kind |-> "reply", status |->
\* the mapping decode_status returns]
Answered(sent, out) ==
    IF out.kind = "raise" THEN Raise(sent)
    ELSE IF out.kind = "cancel" THEN Cancel(sent)
    ELSE IF out.kind = "reply"
    THEN AfterMerge(sent, ParseCloudMessage(sent.store, sent.boxes, out.status, FALSE))
    ELSE sent

\* _build_send and _send_message (lines 420-423, 589-597)
SendMessage(ms, out) ==
    IF ~HasCloud THEN Raise(ms)
    ELSE Answered(Log(ms, [ev |-> "send_cloud", answer |-> out.kind]), out)

\* 2 if current_location == 1 else 1
OtherLocation(current) == IF current = PyInt(1) THEN PyInt(2) ELSE PyInt(1)

LabelOf(location) ==
    IF location = PyInt(1) THEN PyStr("left") ELSE PyStr("right")

\* a derivation that always queries the stored location
DeriveQueryStored(store, query) ==
    IF cfg.device_type # D9 THEN [query |-> query, store |-> store, template |-> query]
    ELSE [query |-> Put(query, "db_location", Get(store, "db_location", PyInt(1))),
          store |-> store, template |-> query]

\* a derivation that writes db_location into the template itself
DeriveQueryInPlace(store, query) ==
    IF cfg.device_type # D9 THEN [query |-> query, store |-> store, template |-> query]
    ELSE IF Get(store, "db_position", PyInt(1)) = PyInt(1)
    THEN [query |-> Put(query, "db_location", Get(store, "db_location", PyInt(1))),
          store |-> store,
          template |-> Put(query, "db_location", Get(store, "db_location", PyInt(1)))]
    ELSE IF Get(store, "db_position", PyInt(1)) = PyInt(0)
    THEN [query |-> Put(query, "db_location",
                        OtherLocation(Get(store, "db_location", PyInt(1)))),
          store |-> Put(store, "db_location_selection",
                        LabelOf(OtherLocation(Get(store, "db_location", PyInt(1))))),
          template |-> Put(query, "db_location",
                           OtherLocation(Get(store, "db_location", PyInt(1))))]
    ELSE [query |-> query, store |-> store, template |-> query]

\* lines 428-446: the query sent for one template, the store after the
\* label update, and the template after it: db_location goes into the copy
\* line 428 made
DeriveQuery(store, query) ==
    IF cfg.device_type # D9 THEN [query |-> query, store |-> store, template |-> query]
    ELSE IF Get(store, "db_position", PyInt(1)) = PyInt(1)
    THEN [query |-> Put(query, "db_location", Get(store, "db_location", PyInt(1))),
          store |-> store, template |-> query]
    ELSE IF Get(store, "db_position", PyInt(1)) = PyInt(0)
    THEN [query |-> Put(query, "db_location",
                        OtherLocation(Get(store, "db_location", PyInt(1)))),
          store |-> Put(store, "db_location_selection",
                        LabelOf(OtherLocation(Get(store, "db_location", PyInt(1))))),
          template |-> query]
    ELSE [query |-> query, store |-> store, template |-> query]

\* lines 461-463 and 472-474: out.build is "cmd" when build_query returns a
\* command and "none" otherwise; out.send is the answer to that command
AskCodec(ms, out) == IF out.build = "cmd" THEN SendMessage(ms, out.send) ELSE ms

\* a fallback that asks the codec whatever the relay returned
AskCloudThenCodec(ms, query, out) ==
    IF ~cfg.lua THEN ms
    ELSE AskCodec(Log(ms, [ev |-> "build_query", query |-> query,
                           built |-> out.build]), out)

\* lines 450-474: out.cloud is "status" when get_device_status returns the
\* non-empty mapping out.status and "none" when it returns nothing
AskCloud(ms, query, out) ==
    IF out.cloud = "status"
    THEN AfterMerge(ms, ParseCloudMessage(ms.store, ms.boxes, out.status, TRUE))
    ELSE IF out.cloud = "cancel" THEN Cancel(ms)
    ELSE IF ~cfg.lua THEN ms
    ELSE AskCodec(Log(ms, [ev |-> "build_query", query |-> query,
                           built |-> out.build]), out)

\* lines 448-474 with the derived query dq
Query(ms, dq, out) ==
    IF ~HasCloud THEN WithStore(ms, dq.store)
    ELSE AskCloud(Log(WithStore(ms, dq.store),
                      [ev |-> "get_device_status", query |-> dq.query,
                       answer |-> IF out.cloud = "status" THEN out.status
                                  ELSE Empty]),
                  dq.query, out)

\* lines 426-474 for one template
RefreshOne(ms, query, out) == Query(ms, DeriveQuery(ms.store, query), out)

\* the template the loop is at, as the derivation leaves it
Templated(ms, i, dq) == [ms EXCEPT !.templates[i] = dq.template]

\* the loop of line 426 over the templates left
RECURSIVE RefreshFrom(_, _, _)
RefreshFrom(ms, queries, outs) ==
    IF queries = <<>> \/ ms.raised THEN ms
    ELSE RefreshFrom(RefreshOne(Templated(ms, Len(ms.templates) - Len(queries) + 1,
                                          DeriveQuery(ms.store, Head(queries))),
                                Head(queries), Head(outs)),
                     Tail(queries), Tail(outs))

\* refresh_status
RefreshStatus(ms, outs) ==
    RefreshFrom(Log(ms, [ev |-> "refresh_status"]), ms.templates, outs)

----------------------------------------------------------------------------
(* set_attribute and set_attributes *)

\* a payload start that reads the first centralized name only
CentralizedStatusFirstOnly(od, store, names) ==
    IF names = <<>> THEN od
    ELSE OdSet(od, Head(names), Get(store, Head(names), None))

\* lines 178-179 and 269-270
RECURSIVE CentralizedStatus(_, _, _)
CentralizedStatus(od, store, names) ==
    IF names = <<>> THEN od
    ELSE CentralizedStatus(OdSet(od, Head(names), Get(store, Head(names), None)),
                           store, Tail(names))

\* _determine_control_status_based_on_running
DetermineControlStatus(running_status) ==
    IF running_status = PyStr("start") THEN PyStr("start") ELSE PyStr("pause")

\* lines 230-239 and 327-336: neither db_position nor the label is being set
LocationFromPosition(store, ns) ==
    IF Get(store, "db_position", PyInt(1)) = PyInt(0)
    THEN OdSet(ns, "db_location", OtherLocation(Get(store, "db_location", PyInt(1))))
    ELSE IF Get(store, "db_position", PyInt(1)) = PyInt(1)
    THEN OdSet(ns, "db_location", Get(store, "db_location", PyInt(1)))
    ELSE ns

\* lines 217-227 and 314-324 with the new location
MoveTo(ms, ns, new_location) ==
    [ms |-> WithStore(ms, Put(Put(ms.store, "db_location", new_location),
                              "db_location_selection", LabelOf(new_location))),
     ns |-> OdSet(OdSet(ns, "db_location", new_location),
                  "db_location_selection", LabelOf(new_location))]

\* lines 214-227 and 311-324: db_position is set to 0
FlipLocation(ms, ns) ==
    MoveTo(ms, ns, OtherLocation(Get(ms.store, "db_location", PyInt(1))))

LocationOf(label) == IF label = PyStr("left") THEN PyInt(1) ELSE PyInt(2)

\* lines 187-198 and 283-294: the label is set, the location follows, then the
\* refresh
SelectLocation(ms, ns, value, outs) ==
    IF value \in {PyStr("left"), PyStr("right")}
    THEN [ms |-> RefreshStatus(WithStore(ms, Put(ms.store, "db_location",
                                                  LocationOf(value))), outs),
          ns |-> OdSet(OdSet(ns, "db_location", LocationOf(value)),
                       "db_location_selection", value)]
    ELSE [ms |-> RefreshStatus(ms, outs),
          ns |-> OdSet(ns, "db_location_selection", value)]

\* lines 201-208 (inPayload) and 297-302 (not inPayload): r = [ms, ns] after
\* the refresh
ControlStatus(r, running_status, inPayload) ==
    IF r.ms.raised \/ running_status = None THEN r
    ELSE [ms |-> WithStore(r.ms, Put(r.ms.store, "db_control_status",
                                     DetermineControlStatus(running_status))),
          ns |-> IF inPayload
                 THEN OdSet(r.ns, "db_control_status",
                            DetermineControlStatus(running_status))
                 ELSE r.ns]

WithControlStatus(r, inPayload) ==
    ControlStatus(r, Get(r.ms.store, "db_running_status", None), inPayload)

\* lines 183-239
SetAttributeD9(ms, ns, attribute, value, outs) ==
    IF attribute = "db_location_selection"
    THEN WithControlStatus(SelectLocation(ms, ns, value, outs), TRUE)
    ELSE IF attribute = "db_position"
    THEN IF value = PyInt(0) THEN FlipLocation(ms, ns) ELSE [ms |-> ms, ns |-> ns]
    ELSE [ms |-> ms, ns |-> LocationFromPosition(ms.store, ns)]

\* lines 253-265 and 351-363
ViaCloud(ms, control) ==
    IF HasCloud
    THEN Log(ms, [ev |-> "send_device_control", control |-> control,
                  status |-> ms.store])
    ELSE ms

\* lines 247-251 and 345-349: an exception of the send is logged, and the
\* cloud relay is tried
Sent(ms, control) ==
    IF ms.raised /\ ~Cancelled(ms)
    THEN ViaCloud([ms EXCEPT !.raised = FALSE], control)
    ELSE ms

\* a control that gives up when the codec built no command
BuiltNoFallback(ms, control, ctl) ==
    IF ctl.build = "cmd" THEN Sent(SendMessage(ms, ctl.send), control)
    ELSE ms

\* lines 246-251 and 344-349: ctl.build is what build_control does ("cmd",
\* "none" or "raise"), ctl.send the answer to the command it built
Built(ms, control, ctl) ==
    IF ctl.build = "cmd" THEN Sent(SendMessage(ms, ctl.send), control)
    ELSE ViaCloud(ms, control)

\* lines 244-265 and 342-363
Controlled(ms, control, ctl) ==
    IF ~cfg.lua THEN ViaCloud(ms, control)
    ELSE Built(Log(ms, [ev |-> "build_control", control |-> control,
                        status |-> ms.store, built |-> ctl.build]),
               control, ctl)

\* lines 242-265: nested is what _convert_to_nested_structure returned
Control(ms, nested, ctl) ==
    IF ~nested.ok THEN Raise(ms) ELSE Controlled(ms, nested.d, ctl)

ControlAfter(r, ctl) ==
    IF r.ms.raised THEN r.ms
    ELSE Control(r.ms, ConvertToNestedStructure(r.ns), ctl)

\* lines 177-239
Prepare(ms, ns, attribute, value, outs) ==
    IF cfg.device_type = D9 THEN SetAttributeD9(ms, ns, attribute, value, outs)
    ELSE [ms |-> ms, ns |-> ns]

\* set_attribute
SetAttribute(ms, attribute, value, outs, ctl) ==
    IF attribute \notin DOMAIN ms.store THEN ms
    ELSE ControlAfter(
             Prepare(ms,
                     OdSet(CentralizedStatus(<<>>, ms.store, cfg.centralized),
                           attribute, value),
                     attribute, value, outs),
             ctl)

\* lines 272-275
RECURSIVE KnownAttributes(_, _, _)
KnownAttributes(od, store, attrs) ==
    IF attrs = <<>> THEN od
    ELSE KnownAttributes(IF Head(attrs).k \in DOMAIN store
                         THEN OdSet(od, Head(attrs).k, Head(attrs).v) ELSE od,
                         store, Tail(attrs))

\* lines 278-336
SetAttributesD9(ms, ns, attrs, outs) ==
    IF OdHas(attrs, "db_location_selection")
    THEN WithControlStatus(
             SelectLocation(ms, ns, OdGet(attrs, "db_location_selection"), outs),
             FALSE)
    ELSE IF OdHas(attrs, "db_position")
    THEN IF OdGet(attrs, "db_position") = PyInt(1)
         THEN [ms |-> ms,
               ns |-> OdSet(ns, "db_location", Get(ms.store, "db_location", PyInt(1)))]
         ELSE IF OdGet(attrs, "db_position") = PyInt(0) THEN FlipLocation(ms, ns)
         ELSE [ms |-> ms, ns |-> ns]
    ELSE [ms |-> ms, ns |-> LocationFromPosition(ms.store, ns)]

\* lines 339-363: nested is computed whether or not a known attribute was given
BatchControl(ms, nested, has_new, ctl) ==
    IF ~nested.ok THEN Raise(ms)
    ELSE IF has_new THEN Controlled(ms, nested.d, ctl)
    ELSE ms

BatchAfter(r, has_new, ctl) ==
    IF r.ms.raised THEN r.ms
    ELSE BatchControl(r.ms, ConvertToNestedStructure(r.ns), has_new, ctl)

\* lines 268-336
PrepareBatch(ms, ns, attrs, outs) ==
    IF cfg.device_type = D9 THEN SetAttributesD9(ms, ns, attrs, outs)
    ELSE [ms |-> ms, ns |-> ns]

\* set_attributes
SetAttributes(ms, attrs, outs, ctl) ==
    BatchAfter(
        PrepareBatch(ms,
                     KnownAttributes(CentralizedStatus(<<>>, ms.store, cfg.centralized),
                                     ms.store, attrs),
                     attrs, outs),
        \E i \in DOMAIN attrs : attrs[i].k \in DOMAIN ms.store,
        ctl)

----------------
(* Configurations and inputs *)

IntValues == {PyInt(n) : n \in 1..MaxInt}

\* the values a device reports for attribute k
Values(k) ==
    IF k = "db_running_status" THEN {PyStr("start"), PyStr("standby")}
    ELSE IF k = "db_position" THEN {PyInt(0), PyInt(1)}
    ELSE IntValues

\* every mapping from at most MaxKeys of the keys to the values each may take
Mappings(keys) ==
    UNION {{f \in [ks -> UNION {Values(k) : k \in ks}] : \A k \in ks : f[k] \in Values(k)}
             : ks \in {x \in SUBSET keys : Cardinality(x) <= MaxKeys}}

\* the non-empty status mappings the relay or the codec may report: the
\* device reports the attributes cfg.reports
Statuses == Mappings(cfg.reports) \ {Empty}

\* the decoded replies to a command sent through _send_message
Replies ==
    IF cfg.device_type = D9
    THEN {"db_running_status" :> PyStr("start")}
    ELSE {"b" :> PyInt(MaxInt)}

SendOutcomes ==
    {[kind |-> "noreply"], [kind |-> "raise"]}
        \cup {[kind |-> "reply", status |-> s] : s \in Replies}

NoSend == [kind |-> "noreply"]

NoAnswer == [cloud |-> "none", status |-> Empty, build |-> "none", send |-> NoSend]

\* what the relay and the codec answer to one query of refresh_status
QueryOutcomes ==
    {[cloud |-> "status", status |-> s, build |-> "none", send |-> NoSend]
        : s \in Statuses}
    \cup {NoAnswer}
    \cup IF cfg.lua
         THEN {[cloud |-> "none", status |-> Empty, build |-> "cmd", send |-> o]
                 : o \in SendOutcomes}
         ELSE {}

\* one outcome per configured query template
RefreshOutcomes ==
    IF Len(cfg.queries) = 1 THEN {<<o>> : o \in QueryOutcomes}
    ELSE {<<o1, o2>> : o1 \in QueryOutcomes, o2 \in QueryOutcomes}

NoRefresh == [i \in 1..Len(cfg.queries) |-> NoAnswer]

NoControl == [build |-> "none", send |-> NoSend]

ControlOutcomes ==
    IF cfg.lua
    THEN {NoControl, [build |-> "raise", send |-> NoSend]}
             \cup {[build |-> "cmd", send |-> o] : o \in SendOutcomes}
    ELSE {NoControl}

\* the (attribute, value) pairs a caller asks for; "zz" is a name no store holds
Requests ==
    IF cfg.device_type = D9
    THEN {[k |-> "db_location_selection", v |-> PyStr(l)] : l \in {"left", "right"}}
         \cup {[k |-> "db_position", v |-> PyInt(n)] : n \in {0, 1}}
         \cup {[k |-> "db_running_status", v |-> PyStr("start")],
               [k |-> "zz", v |-> PyInt(1)]}
    ELSE {[k |-> n, v |-> x] : n \in {"a", "b", "zz"}, x \in IntValues}

\* the mappings passed to set_attributes: one or two requests of distinct names
RequestLists ==
    {<<r>> : r \in Requests}
        \cup {<<r1, r2>> : r1 \in {r \in Requests : r.k \in {"b", "db_position"}},
                           r2 \in {r \in Requests : r.k \in {"zz"}}}

Config(type, centralized, calculate, defaults, lua, cloud, queries, preset, reports) ==
    [device_type |-> type, centralized |-> centralized, calculate_get |-> calculate,
     default_values |-> defaults, lua |-> lua, cloud |-> cloud,
     queries |-> queries, preset |-> preset, reports |-> reports,
     protocol |-> 3]

GenericConfigs ==
    {Config(OtherType, <<"b", "x.y">>, <<RuleMul>>, "a" :> PyInt(1), TRUE, "meiju",
            <<Empty>>, {"a", "b", "x.y"}, {"a", "b"}),
     Config(OtherType, <<"c">>, <<RuleSum>>, Empty, TRUE, "msmart", <<Empty>>, {"c"},
            {"a", "b", "c"}),
     Config(OtherType, <<>>, <<>>, "a" :> PyInt(1), FALSE, "meiju",
            <<Empty, Empty>>, {}, {"a", "b"})}

D9Configs ==
    {Config(D9, <<"db_location", "db_control_status">>, <<>>, Empty, TRUE, "meiju",
            <<Empty>>, {"db_location", "db_control_status"}, {"db_running_status"}),
     Config(D9, <<"db_location">>, <<>>, Empty, TRUE, "msmart",
            <<Empty>>, {"db_location", "db_running_status"}, {"db_position"}),
     Config(D9, <<>>, <<>>, Empty, FALSE, "msmart", <<Empty>>, {},
            {"db_position", "db_location"})}

\* __init__ lines 70-75, then the keys async_setup_entry presets
\* (__init__.py lines 411-415)
InitAttributes(c) ==
    LET identity == [device_type |-> PyStr(IF c.device_type = D9 THEN "T0xD9" ELSE "T0xAC"),
                     sn |-> PyStr("sn"), sn8 |-> PyStr("sn8"), subtype |-> PyInt(0)]
        preset == Merge([k \in c.preset |-> None], identity)
    IN IF c.device_type = D9
       THEN Put(preset, "db_location_selection", PyStr("left"))
       ELSE preset

----------------------------------------------------------------------------
(* _parse_message on the messages the security layer cut from the bytes    *)
(* received (lines 531-587)                                                *)

Overhead == 56      \* header and trailer around the encrypted body
BodyStart == 40     \* offset of the encrypted body
TrailerLen == 16    \* bytes after the encrypted body
BlockSize == 16     \* the cipher's block size

\* b"ERROR"
ErrorSentinel == <<69, 82, 82, 79, 82>>

\* a message with payload type ptype whose length field says alleged and
\* which is actual bytes long
MessageOf(ptype, alleged, actual) ==
    [i \in 1..actual |->
        IF i = 3 THEN ptype % 256
        ELSE IF i = 4 THEN ptype \div 256
        ELSE IF i = 5 THEN alleged % 256
        ELSE IF i = 6 THEN alleged \div 256
        ELSE 0]

\* line 541
PayloadLen(message) == message[5] + message[6] * 256 - Overhead

\* line 542
PayloadType(message) == message[3] + message[4] * 256

\* line 543: 0x1001 and 0x0001
HeartbeatTypes == {4097, 1}

\* line 547: message[40:-16]
Cryptographic(message) == SubSeq(message, BodyStart + 1, Len(message) - TrailerLen)

\* the return statement
Returned(ms, result) == Log(ms, [ev |-> "return", result |-> result])

RECURSIVE ParseFrom(_, _, _)
RECURSIVE Decrypted(_, _, _)

\* a message on its way: the sentinel, or the payload type, the length its
\* length field states and its actual length
Sentinel == [sentinel |-> TRUE]

Described(ptype, alleged, actual) ==
    [sentinel |-> FALSE, ptype |-> ptype, alleged |-> alleged, actual |-> actual]

\* the bytes of a described message
BytesOf(d) ==
    IF d.sentinel THEN ErrorSentinel ELSE MessageOf(d.ptype, d.alleged, d.actual)

\* lines 549-586 once aes_decrypt was called on message i: out is what the
\* cipher and the codec answer, [kind |-> "raise"] (the cipher rejects the
\* body), [kind |-> "none"] or [kind |-> "status", status |-> the mapping
\* decode_status returns]; without a codec self._lua_runtime is None and
\* the attribute access on it raises
Decrypted(ms, batch, i) ==
    IF batch[i].out.kind = "raise" THEN Raise(ms)
    ELSE IF ~cfg.lua THEN Raise(ms)
    ELSE IF batch[i].out.kind = "none" THEN ParseFrom(ms, batch, i + 1)
    ELSE ParseFrom(AfterMerge(ms, ParseLocalStatus(ms.store, ms.boxes,
                                                   batch[i].out.status, TRUE)),
                   batch, i + 1)

\* lines 539-586 for the message whose bytes are message
ParseOne(ms, batch, i, message) ==
    IF message = ErrorSentinel THEN Returned(ms, "ERROR")
    ELSE IF PayloadType(message) \in HeartbeatTypes
    THEN ParseFrom(ms, batch, i + 1)
    ELSE IF Len(message) > Overhead /\ PayloadLen(message) % BlockSize = 0
    THEN Decrypted(Log(ms, [ev |-> "aes_decrypt", i |-> i,
                            body |-> Len(Cryptographic(message))]),
                   batch, i)
    ELSE ParseFrom(ms, batch, i + 1)

\* the for loop of lines 538-586 from message i on
ParseFrom(ms, batch, i) ==
    IF i > Len(batch) THEN Returned(ms, "SUCCESS")
    ELSE ParseOne(ms, batch, i, BytesOf(batch[i].msg))

\* _parse_message once the bytes are cut into the messages of batch (lines
\* 536-587)
ParseMessages(ms, batch) ==
    IF Len(batch) = 0 THEN Returned(ms, "PADDING")
    ELSE ParseFrom(ms, batch, 1)

\* the messages a device sends: the sentinel, a heartbeat, a message with no
\* body, and status messages whose 1-block or quarter-block body the length
\* field states truly or not
Messages ==
    {Sentinel, Described(4097, Overhead, Overhead), Described(3, Overhead, Overhead)}
        \cup {Described(3, Overhead + a, Overhead + b)
                : a \in {BlockSize, BlockSize \div 4}, b \in {BlockSize, BlockSize \div 4}}

\* whether line 549 is reached for the message
Decrypts(message) ==
    /\ message # ErrorSentinel
    /\ PayloadType(message) \notin HeartbeatTypes
    /\ Len(message) > Overhead
    /\ PayloadLen(message) % BlockSize = 0

NoDecode == [kind |-> "none"]

\* what the cipher and the codec may answer for the message: a body of whole
\* blocks is decrypted, any other body may also be rejected
DecodeOutcomes(message) ==
    IF ~Decrypts(message) THEN {NoDecode}
    ELSE {NoDecode}
         \cup {[kind |-> "status", status |-> s]
                 : s \in {t \in Statuses : Cardinality(DOMAIN t) = 1}}
         \cup IF Len(Cryptographic(message)) % BlockSize = 0 THEN {}
              ELSE {[kind |-> "raise"]}

\* a message with the answers to it
Deliveries ==
    UNION {{[msg |-> d, out |-> o] : o \in DecodeOutcomes(BytesOf(d))} : d \in Messages}

\* what one read yields: no complete message, one, or two
Batches ==
    {<<>>} \cup {<<d>> : d \in Deliveries}
           \cup {<<d1, d2>> : d1 \in Deliveries, d2 \in Deliveries}

----------------------------------------------------------------------------
(* The state machine *)

NoBoxes(n) == [i \in 1..n |-> <<>>]

\* the record of the last operation once its caller has moved on
Idle == [op |-> "idle", arg |-> <<>>, pre |-> Empty, trace |-> <<>>,
         raised |-> FALSE]

Start == [store |-> attributes, boxes |-> NoBoxes(updates), trace |-> <<>>,
          raised |-> FALSE, templates |-> cfg.queries]

\* the operation ran from the current state and ended as ms; the event loop
\* runs one operation of the session at a time
Finish(op, arg, ms) ==
    /\ last = Idle
    /\ attributes' = ms.store
    /\ inbox' = ms.boxes
    /\ last' = [op |-> op, arg |-> arg, pre |-> attributes,
                trace |-> ms.trace, raised |-> ms.raised]
    /\ cfg' = [cfg EXCEPT !.queries = ms.templates]
    /\ UNCHANGED <<updates, buffer, security, wire, tasks, hostvars>>

\* line 55: a fresh LocalSecurity holds no session key
NoKey == [tcp_key |-> "none"]

\* nothing received, nothing on its way
NoWire == [sent |-> <<>>, left |-> <<>>, frames |-> <<>>]

\* the module globals as the import leaves them (__init__.py lines 69-70) and
\* a registry without entries of the domain
NoHost ==
    /\ login_locks = <<>>
    /\ cloud_cache = <<>>
    /\ callers = <<>>
    /\ entries = <<>>
    /\ flows = <<>>

InitSession(configs) ==
    /\ cfg \in configs
    /\ attributes = InitAttributes(cfg)
    /\ updates = 0
    /\ inbox = NoBoxes(0)
    /\ last = Idle
    /\ buffer = <<>>
    /\ security = NoKey
    /\ tasks = <<>>
    /\ wire = NoWire
    /\ NoHost

Init == InitSession(GenericConfigs \cup D9Configs)

\* register_update
RegisterUpdate ==
    /\ last = Idle
    /\ updates < MaxUpdates
    /\ updates' = updates + 1
    /\ inbox' = NoBoxes(updates + 1)
    /\ UNCHANGED <<cfg, attributes, last, buffer, security, wire, tasks, hostvars>>

DoRefreshStatus ==
    /\ last = Idle
    /\ \E outs \in RefreshOutcomes :
           Finish("refresh_status", <<>>, RefreshStatus(Start, outs))

DoSetAttribute ==
    /\ last = Idle
    /\ \E r \in Requests :
           \E ctl \in IF r.k \in DOMAIN attributes THEN ControlOutcomes ELSE {NoControl} :
               \E outs \in IF cfg.device_type = D9 /\ r.k = "db_location_selection"
                              /\ r.k \in DOMAIN attributes
                           THEN RefreshOutcomes ELSE {NoRefresh} :
                   Finish("set_attribute", <<r>>, SetAttribute(Start, r.k, r.v, outs, ctl))

DoSetAttributes ==
    /\ last = Idle
    /\ \E rs \in RequestLists :
           \E ctl \in IF \E i \in DOMAIN rs : rs[i].k \in DOMAIN attributes
                      THEN ControlOutcomes ELSE {NoControl} :
               \E outs \in IF cfg.device_type = D9 /\ OdHas(rs, "db_location_selection")
                           THEN RefreshOutcomes ELSE {NoRefresh} :
                   Finish("set_attributes", rs, SetAttributes(Start, rs, outs, ctl))

\* _parse_message on a protocol-3 device receiving one complete status frame
\* that the codec decodes to the mapping status (lines 551-586)
DoParseMessage ==
    /\ last = Idle
    /\ cfg.lua
    /\ cfg.protocol = 3
    /\ \E status \in Statuses :
        Finish("parse_message", <<>>,
               AfterMerge(Start, ParseLocalStatus(Start.store, Start.boxes, status, TRUE)))

\* one read on a protocol-3 device: decode_8370 cuts the bytes into the
\* messages of batch and leaves nothing over
DoReceiveMessages ==
    /\ last = Idle
    /\ cfg.protocol = 3
    /\ \E batch \in Batches :
           Finish("receive", batch, ParseMessages(Start, batch))

\* the caller of the last operation has seen its outcome; the callbacks have
\* consumed what they were handed
Return ==
    /\ last # Idle
    /\ last' = Idle
    /\ inbox' = NoBoxes(updates)
    /\ UNCHANGED <<cfg, attributes, updates, buffer, security, wire, tasks, hostvars>>

Next ==
    \/ RegisterUpdate
    \/ DoRefreshStatus
    \/ DoSetAttribute
    \/ DoSetAttributes
    \/ DoParseMessage
    \/ Return

Spec == Init /\ [][Next]_vars

\* the session with its socket read
InboundConfigs == {c \in GenericConfigs : c.calculate_get # <<RuleSum>>}

InitInbound == InitSession(InboundConfigs)

NextInbound ==
    \/ Next
    \/ DoReceiveMessages

SpecInbound == InitInbound /\ [][NextInbound]_vars

----------------------------------------------------------------------------
(* Observations on the record of the last operation *)

\* positions of the merges in the record, in the order they ran
Merges == {i \in DOMAIN last.trace : last.trace[i].ev = "merge"}

MergeAt(i) == last.trace[i].m

\* the merges _parse_cloud_message ran
CloudMerges == {i \in Merges : MergeAt(i).path = "cloud"}

\* positions of the control payloads handed to the codec or to the relay
Controls ==
    {i \in DOMAIN last.trace :
        last.trace[i].ev \in {"build_control", "send_device_control"}}

\* the names the caller of set_attribute or set_attributes asked to change
Changed == {last.arg[i].k : i \in DOMAIN last.arg}

\* the non-empty deltas of the merges of a record, in order
RECURSIVE DeltasOf(_)
DeltasOf(trace) ==
    IF trace = <<>> THEN <<>>
    ELSE IF Head(trace).ev = "merge" /\ Head(trace).m.delta # Empty
    THEN <<Head(trace).m.delta>> \o DeltasOf(Tail(trace))
    ELSE DeltasOf(Tail(trace))

\* the operation sent nothing, refreshed nothing, wrote nothing, raised nothing
NoEffect == last.trace = <<>> /\ attributes = last.pre /\ ~last.raised

\* names whose payload value the 0xD9 branches of set_attribute and
\* set_attributes compute
D9Derived == {"db_location", "db_location_selection", "db_control_status"}

----------------------------------------------------------------------------
(* Claims *)

\* C1: when _parse_cloud_message merges the same status mapping twice in a
\* row, the second merge has an empty delta.
C1_MergeIdempotent ==
    \A i \in CloudMerges : \A j \in CloudMerges :
        (/\ i < j
         /\ \A k \in Merges : ~(i < k /\ k < j)
         /\ MergeAt(i).status = MergeAt(j).status)
            => MergeAt(j).delta = Empty

\* C2: when a merge has a non-empty delta, the store holds every key of the
\* delta with the delta's value at the moment the subscribers are invoked.
C2_CommitAppliesDelta ==
    \A i \in Merges : \A k \in DOMAIN MergeAt(i).delta :
        k \in DOMAIN MergeAt(i).post /\ MergeAt(i).post[k] = MergeAt(i).delta[k]

\* C3: every registered callback is invoked exactly once per merge with a
\* non-empty delta, with that delta, and never for an empty delta: what a
\* callback received during an operation is the sequence of the non-empty
\* deltas of the operation's merges.
C3_NotifiedOncePerDelta ==
    \A c \in DOMAIN inbox : inbox[c] = DeltasOf(last.trace)

\* C4: in a merge where attribute A has a configured default D and the store
\* lacks A or holds None for it, a status that does not mention A leaves A = D
\* staged, and a status that reports A = V leaves A = V staged; the staged
\* value is the one in the delta unless a calculate rule assigns A.
C4_DefaultSeeding ==
    \A i \in CloudMerges : \A A \in DOMAIN cfg.default_values :
        Get(MergeAt(i).pre, A, None) = None =>
            /\ A \in DOMAIN MergeAt(i).staged
            /\ A \notin DOMAIN MergeAt(i).status
                   => MergeAt(i).staged[A] = cfg.default_values[A]
            /\ A \in DOMAIN MergeAt(i).status
                   => MergeAt(i).staged[A] = MergeAt(i).status[A]
            /\ (\A n \in DOMAIN cfg.calculate_get : cfg.calculate_get[n].lvalue # A)
                   => /\ A \in DOMAIN MergeAt(i).delta
                      /\ MergeAt(i).delta[A] = MergeAt(i).staged[A]

\* an operation merged a status without the defaulted attribute and then a
\* status reporting another value for it: the default was delivered first,
\* the reported value second
C4_Witness ==
    \E i \in CloudMerges : \E j \in CloudMerges : \E A \in DOMAIN cfg.default_values :
        /\ i < j
        /\ Get(MergeAt(i).pre, A, None) = None
        /\ A \notin DOMAIN MergeAt(i).status
        /\ A \in DOMAIN MergeAt(i).delta
        /\ MergeAt(i).delta[A] = cfg.default_values[A]
        /\ Get(MergeAt(j).pre, A, None) = None
        /\ A \in DOMAIN MergeAt(j).status
        /\ MergeAt(j).status[A] # cfg.default_values[A]
        /\ MergeAt(j).delta[A] = MergeAt(j).status[A]

\* C5: once a merge has reported a value for attribute A, no later merge of a
\* status that does not mention A stages A (its default) again.
C5_DefaultOverriddenForGood ==
    \A i \in CloudMerges : \A j \in CloudMerges : \A A \in DOMAIN cfg.default_values :
        (/\ i < j
         /\ A \in DOMAIN MergeAt(i).status
         /\ MergeAt(i).status[A] # None
         /\ A \notin DOMAIN MergeAt(j).status)
            => A \notin DOMAIN MergeAt(j).staged

\* C6: a calculate rule whose rvalue references an attribute of the delta
\* (and can be evaluated over the store overridden by the delta) has its
\* lvalue staged in the delta; a rule none of whose references is in the
\* delta stages nothing and leaves the store alone.
C6_DerivedRecompute ==
    \A i \in CloudMerges : \A n \in DOMAIN cfg.calculate_get :
        IF \E s \in DOMAIN MergeAt(i).staged : RvalueMentions(cfg.calculate_get[n], s)
        THEN EvalRvalue(cfg.calculate_get[n],
                        Merge(MergeAt(i).pre, MergeAt(i).staged)).ok
                 => cfg.calculate_get[n].lvalue \in DOMAIN MergeAt(i).delta
        ELSE /\ MergeAt(i).delta = MergeAt(i).staged
             /\ MergeAt(i).post = MergeAt(i).pre

\* C7: when only some of the attributes a rule's rvalue references are in the
\* delta, the lvalue is staged with the rvalue evaluated over the store
\* overridden by the delta.
C7_DeriveOverStoreAndDelta ==
    \A i \in CloudMerges : \A n \in DOMAIN cfg.calculate_get :
        (/\ \E s \in DOMAIN MergeAt(i).staged : RvalueMentions(cfg.calculate_get[n], s)
         /\ \E s \in SeqToSet(cfg.calculate_get[n].refs) : s \notin DOMAIN MergeAt(i).staged
         /\ EvalRvalue(cfg.calculate_get[n], Merge(MergeAt(i).pre, MergeAt(i).staged)).ok)
            => /\ cfg.calculate_get[n].lvalue \in DOMAIN MergeAt(i).delta
               /\ MergeAt(i).delta[cfg.calculate_get[n].lvalue]
                      = EvalRvalue(cfg.calculate_get[n],
                                   Merge(MergeAt(i).pre, MergeAt(i).staged)).val

\* C8: every key of a delta delivered to the subscribers was absent from the
\* store before the merge or held another value there, keys staged by
\* calculate rules included.
C8_DeltaHoldsChangesOnly ==
    \A i \in CloudMerges : \A k \in DOMAIN MergeAt(i).delta :
        MergeAt(i).update =>
            (k \notin DOMAIN MergeAt(i).pre \/ MergeAt(i).pre[k] # MergeAt(i).delta[k])

\* C9: set_attribute with a name the store lacks, and set_attributes with no
\* key the store holds, send nothing, refresh nothing, leave the store
\* unchanged and raise nothing, on every device type.
C9_UnknownIsNoOp ==
    /\ (last.op = "set_attribute" /\ Changed \cap DOMAIN last.pre = {}) => NoEffect
    /\ (last.op = "set_attributes" /\ Changed \cap DOMAIN last.pre = {}) => NoEffect

EventIs(i, ev) == i \in DOMAIN last.trace /\ last.trace[i].ev = ev

\* positions of the relay status calls
StatusCalls == {i \in DOMAIN last.trace : last.trace[i].ev = "get_device_status"}

\* C11: for each query, a status the relay returns is merged (with
\* notification) and the codec is not asked for a query; when the relay
\* returns nothing and the device has a codec, the codec is asked to build a
\* query from the same derived parameters, and the command is sent exactly
\* when one was built.
C11_RefreshFallbackChain ==
    \A i \in StatusCalls :
        IF last.trace[i].answer # Empty
        THEN /\ EventIs(i + 1, "merge")
             /\ MergeAt(i + 1).path = "cloud"
             /\ MergeAt(i + 1).status = last.trace[i].answer
             /\ MergeAt(i + 1).update
             /\ ~EventIs(i + 2, "build_query")
        ELSE cfg.lua =>
                 /\ EventIs(i + 1, "build_query")
                 /\ last.trace[i + 1].query = last.trace[i].query
                 /\ (last.trace[i + 1].built = "cmd") <=> EventIs(i + 2, "send_cloud")

\* the relay returned nothing for a query, the codec built a command for it
\* and the command was sent
C11_Witness ==
    \E i \in StatusCalls :
        /\ last.trace[i].answer = Empty
        /\ EventIs(i + 1, "build_query")
        /\ last.trace[i + 1].built = "cmd"
        /\ EventIs(i + 2, "send_cloud")

\* positions of the control payloads handed to the codec
CodecControls == {i \in DOMAIN last.trace : last.trace[i].ev = "build_control"}

\* C12: when build_control returns no command or raises, the next thing the
\* call does is send_device_control with the same nested payload and the
\* whole current store as status.
C12_ControlFallbackChain ==
    \A i \in CodecControls :
        last.trace[i].built \in {"none", "raise"} =>
            /\ EventIs(i + 1, "send_device_control")
            /\ last.trace[i + 1].control = last.trace[i].control
            /\ last.trace[i + 1].status = attributes
            /\ ~last.raised

\* build_control raised in a set_attributes call and the relay got the payload
C12_Witness ==
    \E i \in CodecControls :
        /\ last.op = "set_attributes"
        /\ last.trace[i].built = "raise"
        /\ EventIs(i + 1, "send_device_control")
        /\ last.trace[i + 1].control = last.trace[i].control

\* C13: a call that handed a codec-built control command to the transport
\* does not invoke send_device_control.
C13_OneControlPath ==
    \A i \in CodecControls :
        EventIs(i + 1, "send_cloud") =>
            \A j \in DOMAIN last.trace : last.trace[j].ev # "send_device_control"

\* a relay or codec call of the operation raised
SomeCallRaised ==
    \E i \in DOMAIN last.trace :
        \/ last.trace[i].ev = "send_cloud" /\ last.trace[i].answer = "raise"
        \/ last.trace[i].ev = "build_control" /\ last.trace[i].built = "raise"

\* C14: an operation in which a relay or codec call raised completes without
\* raising.
C14_FailuresAbsorbed == SomeCallRaised => ~last.raised

\* C15: on a 0xD9 device every query of a refresh carries db_location: the
\* stored location when the stored db_position is 1 (or missing), the other
\* of the locations 1 and 2 when it is 0, and then the stored selection label
\* is the label of the queried location. (Within an operation neither
\* db_position nor db_location changes once the first query is derived.)
C15_DualChamberQuery ==
    \A i \in StatusCalls :
        cfg.device_type = D9 =>
            /\ Get(attributes, "db_position", PyInt(1)) = PyInt(1)
                   => last.trace[i].query["db_location"]
                          = Get(attributes, "db_location", PyInt(1))
            /\ (/\ Get(attributes, "db_position", PyInt(1)) = PyInt(0)
                /\ Get(attributes, "db_location", PyInt(1)) = PyInt(1))
                   => /\ last.trace[i].query["db_location"] = PyInt(2)
                      /\ attributes["db_location_selection"] = PyStr("right")
            /\ (/\ Get(attributes, "db_position", PyInt(1)) = PyInt(0)
                /\ Get(attributes, "db_location", PyInt(1)) = PyInt(2))
                   => /\ last.trace[i].query["db_location"] = PyInt(1)
                      /\ attributes["db_location_selection"] = PyStr("left")

\* a refresh ran with position 0 and location 1 in the store while the label
\* was "left": it queried location 2 and the label became "right"
C15_Witness ==
    /\ last.op = "refresh_status"
    /\ "db_position" \in DOMAIN last.pre /\ last.pre["db_position"] = PyInt(0)
    /\ last.pre["db_location"] = PyInt(1)
    /\ last.pre["db_location_selection"] = PyStr("left")
    /\ \E i \in StatusCalls : last.trace[i].query["db_location"] = PyInt(2)
    /\ attributes["db_location_selection"] = PyStr("right")

\* the location a selection label stands for
LocationOfLabel(v) == IF v = PyStr("left") THEN PyInt(1) ELSE PyInt(2)

\* the last operation was set_attribute("db_location_selection", v) on a
\* 0xD9 device, v being one of the two labels
SelectionChanged ==
    /\ cfg.device_type = D9
    /\ last.op = "set_attribute"
    /\ last.arg[1].k = "db_location_selection"
    /\ last.arg[1].v \in {PyStr("left"), PyStr("right")}

\* C16: set_attribute("db_location_selection", v) stores the location of v,
\* runs refresh_status exactly once and sends a control payload that holds
\* db_location_selection = v and the matching db_location.
C16_SelectionChange ==
    SelectionChanged =>
        /\ attributes["db_location"] = LocationOfLabel(last.arg[1].v)
        /\ Cardinality({i \in DOMAIN last.trace :
                           last.trace[i].ev = "refresh_status"}) = 1
        /\ \E i \in Controls :
               /\ Lookup(last.trace[i].control, <<"db_location_selection">>)
                      = [found |-> TRUE, node |-> Leaf(last.arg[1].v)]
               /\ Lookup(last.trace[i].control, <<"db_location">>)
                      = [found |-> TRUE,
                         node |-> Leaf(LocationOfLabel(last.arg[1].v))]

\* C17: when the selection label is changed, the refresh the change triggers
\* runs after the control payload of the change was sent.
C17_RefreshAfterControl ==
    SelectionChanged =>
        \A r \in DOMAIN last.trace :
            last.trace[r].ev = "refresh_status" => \E c \in Controls : c < r

\* the last operation was set_attribute("db_position", v) on a 0xD9 device
\* whose store holds db_position and one of the locations 1 and 2
PositionSet(v) ==
    /\ cfg.device_type = D9
    /\ last.op = "set_attribute"
    /\ last.arg[1] = [k |-> "db_position", v |-> PyInt(v)]
    /\ "db_position" \in DOMAIN last.pre
    /\ Get(last.pre, "db_location", None) \in {PyInt(1), PyInt(2)}

\* the label of a location
LabelOfLocation(l) == IF l = PyInt(1) THEN PyStr("left") ELSE PyStr("right")

\* the store after one more set_attribute("db_position", 0)
ToggledAgain ==
    SetAttribute(Start, "db_position", PyInt(0), NoRefresh, NoControl).store

\* C18, the toggle: set_attribute("db_position", 0) stores the other of the
\* locations 1 and 2 and its label and puts both in the control payload.
C18_ToggleFlips ==
    PositionSet(0) =>
        /\ attributes["db_location"] \in {PyInt(1), PyInt(2)}
        /\ attributes["db_location"] # last.pre["db_location"]
        /\ attributes["db_location_selection"]
               = LabelOfLocation(attributes["db_location"])
        /\ \E i \in Controls :
               /\ Lookup(last.trace[i].control, <<"db_location">>)
                      = [found |-> TRUE, node |-> Leaf(attributes["db_location"])]
               /\ Lookup(last.trace[i].control, <<"db_location_selection">>)
                      = [found |-> TRUE,
                         node |-> Leaf(attributes["db_location_selection"])]

\* C18, position 1: set_attribute("db_position", 1) leaves the stored
\* location and label as they were.
C18_KeepOnOne ==
    PositionSet(1) =>
        /\ attributes["db_location"] = last.pre["db_location"]
        /\ attributes["db_location_selection"] = last.pre["db_location_selection"]

\* C18, twice: a second set_attribute("db_position", 0) restores the location
\* and the label the store held before the first.
C18_TwiceRestores ==
    PositionSet(0) =>
        /\ ToggledAgain["db_location"] = last.pre["db_location"]
        /\ ToggledAgain["db_location_selection"] = last.pre["db_location_selection"]

\* C18: the toggle flips location and label and puts both in the payload, two
\* toggles restore location and label, and position 1 changes neither.
C18_PositionToggle == C18_ToggleFlips /\ C18_KeepOnOne /\ C18_TwiceRestores

----------------------------------------------------------------------------
(* _convert_to_nested_structure on its own: the flat mappings over a few   *)
(* plain and dotted keys, in every insertion order                         *)

FlatKeys == {"x", "x.y", "x.z", "x.y.w", "w"}

\* the flat mappings of n keys
FlatOfLen(n) ==
    {od \in [1..n -> [k : FlatKeys, v : IntValues]] :
        \A i \in 1..n : \A j \in 1..n : i # j => od[i].k # od[j].k}

FlatMappings == UNION {FlatOfLen(n) : n \in 1..MaxFlat}

InitConvert ==
    /\ cfg \in {c \in GenericConfigs : c.centralized = <<>>}
    /\ attributes = InitAttributes(cfg)
    /\ updates = 0
    /\ inbox = NoBoxes(0)
    /\ last = Idle
    /\ buffer = <<>>
    /\ security = NoKey
    /\ tasks = <<>>
    /\ wire = NoWire
    /\ NoHost

\* one call of _convert_to_nested_structure: the record holds its result, and
\* raised when it raised
DoConvert ==
    /\ last = Idle
    /\ \E od \in FlatMappings :
           last' = [op |-> "convert", arg |-> od, pre |-> attributes,
                    trace |-> <<[ev |-> "nested",
                                 r |-> ConvertToNestedStructure(od)]>>,
                    raised |-> ~ConvertToNestedStructure(od).ok]
    /\ UNCHANGED <<cfg, attributes, updates, inbox, buffer, security, wire, tasks, hostvars>>

NextConvert ==
    \/ DoConvert
    \/ Return

SpecConvert == InitConvert /\ [][NextConvert]_vars

\* the flat mapping a nested payload stands for: one dotted key per leaf
RECURSIVE Flatten(_, _)
Flatten(d, prefix) ==
    UNION {IF IsSub(d[k]) THEN Flatten(d[k].sub, prefix \o k \o ".")
           ELSE {[k |-> prefix \o k, v |-> d[k].leaf]}
             : k \in DOMAIN d}

\* C19: the conversion never raises, every key of the flat mapping addresses
\* its value in the result, and flattening the result gives the flat mapping
\* back.
C19_DotPathConversion ==
    last.op = "convert" =>
        /\ ~last.raised
        /\ \A i \in DOMAIN last.arg :
               Lookup(last.trace[1].r.d, Split(last.arg[i].k))
                   = [found |-> TRUE, node |-> Leaf(last.arg[i].v)]
        /\ Flatten(last.trace[1].r.d, "") = SeqToSet(last.arg)

----------------------------------------------------------------------------
\* Reassembly of protocol-2 frames from a fragmented byte stream

MaxFrames == 2      \* frames in one stream
MaxBody == 1        \* bytes of a frame after its header
MaxByte == 1        \* largest value of a byte the header does not fix
HeaderLen == 6      \* the length field ends at offset 5

\* line 391: the little-endian length field at offsets 4 and 5
AllegedLen(msg) == msg[5] + msg[6] * 256

Drop(msg, n) == SubSeq(msg, n + 1, Len(msg))

\* _fetch_v2_message: the loop cuts one frame per turn; a length field of 0
\* cuts nothing and the loop does not end
RECURSIVE FetchFrom(_, _)
FetchFrom(result, msg) ==
    IF Len(msg) = 0 \/ Len(msg) < HeaderLen
    THEN [frames |-> result, rest |-> msg, diverges |-> FALSE]
    ELSE IF Len(msg) < AllegedLen(msg)
    THEN [frames |-> result, rest |-> msg, diverges |-> FALSE]
    ELSE IF AllegedLen(msg) = 0
    THEN [frames |-> result, rest |-> msg, diverges |-> TRUE]
    ELSE FetchFrom(Append(result, SubSeq(msg, 1, AllegedLen(msg))),
                   Drop(msg, AllegedLen(msg)))

FetchV2Message(msg) == FetchFrom(<<>>, msg)

\* the methods of the class whose names end in message
MessageMethods ==
    {"_fetch_v2_message", "_send_message_v2", "_send_message_v3",
     "_parse_cloud_message", "_parse_message", "_send_message"}

\* the first statement of _parse_message on a device whose protocol is not 3:
\* the attribute it calls is looked up on the object; when the lookup fails
\* the call raises before the buffer is assigned
Cut(buf, r) == [raised |-> FALSE, frames |-> r.frames, buffer |-> r.rest]

Reassemble(buf, msg) ==
    IF "fetch_v2_message" \in MessageMethods
    THEN Cut(buf, FetchV2Message(buf \o msg))
    ELSE [raised |-> TRUE, frames |-> <<>>, buffer |-> buf]

\* well-formed frames: the length field is the frame's size
Frame(first, body) ==
    <<first, 0, 0, 0, (HeaderLen + Len(body)) % 256,
      (HeaderLen + Len(body)) \div 256>> \o body

Bytes == 0..MaxByte

Bodies == UNION {[1..n -> Bytes] : n \in 0..MaxBody}

Frames == {Frame(first, body) : first \in Bytes, body \in Bodies}

RECURSIVE Concat(_)
Concat(fs) == IF fs = <<>> THEN <<>> ELSE Head(fs) \o Concat(Tail(fs))

Streams == {Concat(fs) : fs \in UNION {[1..n -> Frames] : n \in 1..MaxFrames}}

FrameConfigs ==
    {[c EXCEPT !.protocol = 2] : c \in {g \in GenericConfigs : g.centralized = <<>>}}

InitFrames ==
    /\ cfg \in FrameConfigs
    /\ attributes = InitAttributes(cfg)
    /\ updates = 0
    /\ inbox = NoBoxes(0)
    /\ last = Idle
    /\ buffer = <<>>
    /\ security = NoKey
    /\ tasks = <<>>
    /\ wire \in {[sent |-> <<>>, left |-> s, frames |-> <<>>] : s \in Streams}
    /\ NoHost

\* the call _parse_message(msg) ended as r
Received(msg, r) ==
    /\ buffer' = r.buffer
    /\ wire' = [sent |-> wire.sent \o msg, left |-> Drop(wire.left, Len(msg)),
                frames |-> wire.frames \o r.frames]
    /\ last' = [op |-> "parse_message", arg |-> msg, pre |-> attributes,
                trace |-> <<>>, raised |-> r.raised]
    /\ UNCHANGED <<cfg, attributes, updates, inbox, security, tasks, hostvars>>

\* the socket hands the next bytes of the stream, cut anywhere, to
\* _parse_message
DoReceive ==
    /\ last = Idle
    /\ cfg.protocol # 3
    /\ \E n \in 1..Len(wire.left) :
           Received(SubSeq(wire.left, 1, n), Reassemble(buffer, SubSeq(wire.left, 1, n)))

NextFrames ==
    \/ DoReceive
    \/ Return

SpecFrames == InitFrames /\ [][NextFrames]_vars

\* C20: whatever the fragments, the frames emitted so far are those one call
\* on the bytes delivered so far emits, they are made of delivered bytes only,
\* and the delivered bytes not yet emitted are in the session buffer.
C20_FragmentationInvariant ==
    /\ wire.frames = Reassemble(<<>>, wire.sent).frames
    /\ Len(Concat(wire.frames)) <= Len(wire.sent)
    /\ Concat(wire.frames) = SubSeq(wire.sent, 1, Len(Concat(wire.frames)))
    /\ buffer = Drop(wire.sent, Len(Concat(wire.frames)))

----------------------------------------------------------------------------
\* Observations on a socket read

\* the last operation was a read and _parse_message returned r
Gave(r) ==
    /\ last.op = "receive"
    /\ ~last.raised
    /\ last.trace[Len(last.trace)] = [ev |-> "return", result |-> r]

HadSentinel == \E i \in DOMAIN last.arg : last.arg[i].msg = Sentinel

\* C21: a read that returns gives PADDING exactly when it held no complete
\* message, ERROR when one of its messages is the sentinel, SUCCESS
\* otherwise; and a read that returned ERROR merged nothing and delivered
\* nothing.
C21_ThreeValuedResult ==
    last.op = "receive" /\ ~last.raised =>
        /\ Gave("PADDING") <=> last.arg = <<>>
        /\ HadSentinel => Gave("ERROR")
        /\ last.arg # <<>> /\ ~HadSentinel => Gave("SUCCESS")
        /\ Gave("ERROR") => /\ Merges = {}
                            /\ attributes = last.pre
                            /\ inbox = NoBoxes(updates)

----------------------------------------------------------------------------
\* The handshake (_authenticate, lines 399-408)

MaxResponse == 80     \* bytes of the longest handshake response

MinHandshake == 20    \* the shortest response line 405 lets through
KeyRangeStart == 8    \* line 407: response[8: 72]
KeyRangeEnd == 72

\* len(response[8: 72]) for a response of n bytes
Sliced(n) ==
    IF n <= KeyRangeStart THEN 0
    ELSE (IF n < KeyRangeEnd THEN n ELSE KeyRangeEnd) - KeyRangeStart

\* the handshake raised exc
Failed(hs, exc) ==
    [hs EXCEPT !.trace = Append(@, [ev |-> "raise", exc |-> exc]), !.raised = TRUE]

\* line 408: the security layer derives the session key, or rejects the
\* bytes it is handed
TcpKey(hs, len, out) ==
    IF out = "derived"
    THEN [hs EXCEPT !.trace = Append(@, [ev |-> "tcp_key", len |-> len]),
                    !.key = "derived"]
    ELSE Failed([hs EXCEPT !.trace = Append(@, [ev |-> "tcp_key", len |-> len])],
                "Exception")

\* a handshake that hands any response to tcp_key
AuthenticateUnchecked(hs, sock, out) ==
    IF ~sock.open THEN Failed(hs, "AttributeError")
    ELSE TcpKey(hs, Sliced(sock.n), out)

\* _authenticate: sock is the socket, None or one whose recv answers n bytes
Authenticate(hs, sock, out) ==
    IF ~sock.open THEN Failed(hs, "AttributeError")
    ELSE IF sock.n < MinHandshake THEN Failed(hs, "AuthException")
    ELSE TcpKey(hs, Sliced(sock.n), out)

Sockets ==
    {[open |-> FALSE]} \cup {[open |-> TRUE, n |-> n] : n \in 0..MaxResponse}

\* the handshake ended as hs
Handshaken(sock, hs) ==
    /\ security' = [tcp_key |-> hs.key]
    /\ last' = [op |-> "authenticate", arg |-> sock, pre |-> attributes,
                trace |-> hs.trace, raised |-> hs.raised]
    /\ UNCHANGED <<cfg, attributes, updates, inbox, buffer, wire, tasks, hostvars>>

\* one connection attempt of a session that holds no session key; the class
\* has no code that connects again once the key is derived
DoAuthenticate ==
    /\ last = Idle
    /\ cfg.protocol = 3
    /\ security = NoKey
    /\ \E sock \in Sockets :
           \E out \in {"derived", "rejected"} :
               Handshaken(sock, Authenticate([key |-> security.tcp_key, trace |-> <<>>,
                                              raised |-> FALSE], sock, out))

InitHandshake == InitSession(GenericConfigs)

NextHandshake ==
    \/ DoAuthenticate
    \/ Return

SpecHandshake == InitHandshake /\ [][NextHandshake]_vars

\* the last operation was a handshake whose response was too short
ShortResponse ==
    /\ last.op = "authenticate"
    /\ last.arg.open
    /\ last.arg.n < MinHandshake

\* C22: a handshake whose response is shorter than the minimum raises
\* AuthException without calling tcp_key, and the security context holds no
\* session key afterwards.
C22_HandshakeFailure ==
    ShortResponse =>
        /\ last.raised
        /\ last.trace = <<[ev |-> "raise", exc |-> "AuthException"]>>
        /\ security = NoKey

C22_Witness == ShortResponse /\ last.raised /\ last.arg.n = MinHandshake - 1

----------------------------------------------------------------------------
\* Concurrent refresh_status calls: a coroutine runs until its next await
\* (get_device_status at lines 452 and 466, send_cloud at line 590) and is
\* resumed with the answer

MaxTasks == 2       \* coroutines in flight

\* the session as coroutine t finds it when the event loop runs it
Now(t) ==
    [store |-> attributes, boxes |-> inbox,
     trace |-> Append(last.trace, [ev |-> "run", t |-> t]), raised |-> FALSE,
     templates |-> cfg.queries]

Suspended(pc, queries, query) == [pc |-> pc, queries |-> queries, query |-> query]

Ended(pc) == Suspended(pc, <<>>, Empty)

\* lines 426-452: the loop runs to the get_device_status call of the next
\* template; dq is its derived query
Awaiting(ms, queries, dq) ==
    [ms |-> WithStore(ms, dq.store), task |-> Suspended("status", queries, dq.query)]

RunToAwait(ms, queries) ==
    IF queries = <<>> THEN [ms |-> ms, task |-> Ended("done")]
    ELSE Awaiting(ms, queries, DeriveQuery(ms.store, Head(queries)))

\* the coroutine resumes with the relay's answer to get_device_status
StatusArrived(ms, task, out) ==
    IF out.cloud = "status"
    THEN RunToAwait(AfterMerge(ms, ParseCloudMessage(ms.store, ms.boxes,
                                                     out.status, TRUE)),
                    Tail(task.queries))
    ELSE IF cfg.lua /\ out.build = "cmd"
    THEN [ms |-> Log(ms, [ev |-> "build_query", query |-> task.query,
                          built |-> out.build]),
          task |-> Suspended("send", task.queries, task.query)]
    ELSE RunToAwait(ms, Tail(task.queries))

\* the coroutine resumes with the answer to send_cloud: sent is the session
\* after lines 590-597
Resumed(sent, task) ==
    IF sent.raised THEN [ms |-> sent, task |-> Ended("failed")]
    ELSE RunToAwait(sent, Tail(task.queries))

ReplyArrived(ms, task, out) ==
    Resumed(Answered(Log(ms, [ev |-> "send_cloud", answer |-> out.kind]), out), task)

\* coroutine t ran from the current state to r
Ran(t, r) ==
    /\ tasks' = [tasks EXCEPT ![t] = r.task]
    /\ attributes' = r.ms.store
    /\ inbox' = r.ms.boxes
    /\ last' = [last EXCEPT !.trace = r.ms.trace]
    /\ UNCHANGED <<cfg, updates, buffer, security, wire, hostvars>>

\* a caller starts refresh_status; the coroutine runs to its first await
Spawn ==
    /\ last.op \in {"idle", "tasks"}
    /\ Len(tasks) < MaxTasks
    /\ tasks' = Append(tasks, RunToAwait(Now(Len(tasks) + 1), cfg.queries).task)
    /\ attributes' = RunToAwait(Now(Len(tasks) + 1), cfg.queries).ms.store
    /\ last' = [op |-> "tasks", arg |-> <<>>,
                pre |-> IF last = Idle THEN attributes ELSE last.pre,
                trace |-> RunToAwait(Now(Len(tasks) + 1), cfg.queries).ms.trace,
                raised |-> FALSE]
    /\ UNCHANGED <<cfg, updates, inbox, buffer, security, wire, hostvars>>

\* the answers to get_device_status: nothing, or one reported attribute
TaskAnswers ==
    {o \in QueryOutcomes : o.send = NoSend /\ Cardinality(DOMAIN o.status) <= 1}

ResumeStatus ==
    \E t \in DOMAIN tasks :
        /\ tasks[t].pc = "status"
        /\ \E out \in TaskAnswers : Ran(t, StatusArrived(Now(t), tasks[t], out))

ResumeSend ==
    \E t \in DOMAIN tasks :
        /\ tasks[t].pc = "send"
        /\ \E out \in SendOutcomes : Ran(t, ReplyArrived(Now(t), tasks[t], out))

\* every coroutine has ended and its caller has moved on
Settle ==
    /\ tasks # <<>>
    /\ \A t \in DOMAIN tasks : tasks[t].pc \in {"done", "failed"}
    /\ tasks' = <<>>
    /\ last' = Idle
    /\ inbox' = NoBoxes(updates)
    /\ UNCHANGED <<cfg, attributes, updates, buffer, security, wire, hostvars>>

\* sessions with one subscriber
InitTasks ==
    /\ cfg \in {c \in GenericConfigs : c.calculate_get # <<RuleSum>>}
    /\ attributes = InitAttributes(cfg)
    /\ updates = 1
    /\ inbox = NoBoxes(1)
    /\ last = Idle
    /\ buffer = <<>>
    /\ security = NoKey
    /\ tasks = <<>>
    /\ wire = NoWire
    /\ NoHost

NextTasks ==
    \/ Spawn
    \/ ResumeStatus
    \/ ResumeSend
    \/ Settle

SpecTasks == InitTasks /\ [][NextTasks]_vars

\* the coroutine that ran event i of the record
Owner(i) ==
    last.trace[CHOOSE r \in 1..i :
                   /\ last.trace[r].ev = "run"
                   /\ \A q \in (r + 1)..i : last.trace[q].ev # "run"].t

\* the merges whose delta the subscribers were handed
Delivered == {i \in Merges : MergeAt(i).update /\ MergeAt(i).staged # Empty}

\* merge i ran while the coroutine of the later merge j was in flight
InFlightTogether(i, j) ==
    /\ i < j
    /\ Owner(i) # Owner(j)
    /\ \E r \in 1..i : last.trace[r].ev = "run" /\ last.trace[r].t = Owner(j)

\* between the merges i and j some delta gave k another value than v
ChangedBetween(i, j, k, v) ==
    \E m \in Merges :
        /\ i < m /\ m < j
        /\ k \in DOMAIN MergeAt(m).delta
        /\ MergeAt(m).delta[k] # v

\* C23: with several refresh_status calls in flight, each merge starts from
\* the store the merge before it left, and no two calls deliver the same
\* change of an attribute.
C23_MergesSerialized ==
    last.op = "tasks" =>
        /\ \A i \in Merges : \A j \in Merges :
               (i < j /\ \A m \in Merges : ~(i < m /\ m < j))
                   => MergeAt(j).pre = MergeAt(i).post
        /\ \A i \in Delivered : \A j \in Delivered :
               InFlightTogether(i, j) =>
                   \A k \in DOMAIN MergeAt(i).delta \cap DOMAIN MergeAt(j).delta :
                       MergeAt(i).delta[k] = MergeAt(j).delta[k]
                           => ChangedBetween(i, j, k, MergeAt(i).delta[k])

----------------------------------------------------------------------------
\* Cancellation of a call at one of its awaits

CancelAtStatus == [cloud |-> "cancel", status |-> Empty, build |-> "none", send |-> NoSend]

CancelAtSend ==
    [cloud |-> "none", status |-> Empty, build |-> "cmd", send |-> [kind |-> "cancel"]]

\* the answers to one query whose coroutine is cancelled while it awaits
\* get_device_status or send_cloud
CancelledQueries == {CancelAtStatus} \cup IF cfg.lua THEN {CancelAtSend} ELSE {}

\* a refresh cancelled during its first or its second query
CancelledRefreshes ==
    IF Len(cfg.queries) = 1 THEN {<<c>> : c \in CancelledQueries}
    ELSE {<<c, NoAnswer>> : c \in CancelledQueries}
             \cup {<<o, c>> : o \in QueryOutcomes, c \in CancelledQueries}

\* a control cancelled while the command the codec built is sent
CancelledControls ==
    IF cfg.lua THEN {[build |-> "cmd", send |-> [kind |-> "cancel"]]} ELSE {}

\* the call is cancelled while it awaits send_device_control (lines 255-265
\* and 353-363), the last thing it does
RelayCancelled(ms) ==
    IF ~ms.raised /\ ms.trace # <<>>
       /\ ms.trace[Len(ms.trace)].ev = "send_device_control"
    THEN Cancel(ms)
    ELSE ms

DoCancelledRefresh ==
    \E outs \in CancelledRefreshes :
        Finish("refresh_status", <<>>, RefreshStatus(Start, outs))

\* set_attribute cancelled in the refresh of the selection branch, in the
\* send of the built command, or in the relay's control call
DoCancelledSetAttribute ==
    \E r \in {q \in Requests : q.k \in DOMAIN attributes} :
        \/ /\ cfg.device_type = D9 /\ r.k = "db_location_selection"
           /\ \E outs \in CancelledRefreshes :
                  Finish("set_attribute", <<r>>,
                         SetAttribute(Start, r.k, r.v, outs, NoControl))
        \/ \E ctl \in CancelledControls :
               Finish("set_attribute", <<r>>,
                      SetAttribute(Start, r.k, r.v, NoRefresh, ctl))
        \/ \E ctl \in ControlOutcomes :
               Finish("set_attribute", <<r>>,
                      RelayCancelled(SetAttribute(Start, r.k, r.v, NoRefresh, ctl)))

DoCancelledSetAttributes ==
    \E rs \in {q \in RequestLists : \E i \in DOMAIN q : q[i].k \in DOMAIN attributes} :
        \/ /\ cfg.device_type = D9 /\ OdHas(rs, "db_location_selection")
           /\ \E outs \in CancelledRefreshes :
                  Finish("set_attributes", rs,
                         SetAttributes(Start, rs, outs, NoControl))
        \/ \E ctl \in CancelledControls :
               Finish("set_attributes", rs,
                      SetAttributes(Start, rs, NoRefresh, ctl))
        \/ \E ctl \in ControlOutcomes :
               Finish("set_attributes", rs,
                      RelayCancelled(SetAttributes(Start, rs, NoRefresh, ctl)))

NextCancel ==
    \/ Next
    \/ DoCancelledRefresh
    \/ DoCancelledSetAttribute
    \/ DoCancelledSetAttributes

SpecCancel == Init /\ [][NextCancel]_vars

\* the last call was cancelled
WasCancelled ==
    /\ last.raised
    /\ last.trace # <<>>
    /\ last.trace[Len(last.trace)] = [ev |-> "cancelled"]

\* the session the last call started from
Before == [store |-> last.pre, boxes |-> NoBoxes(updates), trace |-> <<>>,
           raised |-> FALSE, templates |-> cfg.queries]

\* the stores the last call leaves when it runs to its end, whatever the
\* relay and the codec answer
CompletedRefresh ==
    {RefreshStatus(Before, outs).store
       : outs \in {o \in RefreshOutcomes : ~RefreshStatus(Before, o).raised}}

CompletedSetAttribute ==
    UNION {{SetAttribute(Before, last.arg[1].k, last.arg[1].v, outs, ctl).store
              : outs \in {o \in RefreshOutcomes
                            : ~SetAttribute(Before, last.arg[1].k, last.arg[1].v,
                                            o, ctl).raised}}
             : ctl \in ControlOutcomes}

CompletedSetAttributes ==
    UNION {{SetAttributes(Before, last.arg, outs, ctl).store
              : outs \in {o \in RefreshOutcomes
                            : ~SetAttributes(Before, last.arg, o, ctl).raised}}
             : ctl \in ControlOutcomes}

Completed ==
    IF last.op = "refresh_status" THEN CompletedRefresh
    ELSE IF last.op = "set_attribute" THEN CompletedSetAttribute
    ELSE CompletedSetAttributes

\* C24: a call cancelled at an await leaves the store as it was before the
\* call or as the call leaves it when it runs to its end.
C24_CancelAllOrNothing ==
    WasCancelled => attributes = last.pre \/ attributes \in Completed

----------------------------------------------------------------------------
\* the merges of the last operation account for the store: the first starts
\* from the store before the operation, each next one from the store the
\* merge before it left, and the last leaves the store as it is now
MergesAccountForStore ==
    /\ Merges = {} => attributes = last.pre
    /\ \A i \in Merges :
           /\ (\A m \in Merges : i <= m) => MergeAt(i).pre = last.pre
           /\ (\A m \in Merges : m <= i) => MergeAt(i).post = attributes
           /\ \A j \in Merges :
                  (i < j /\ \A m \in Merges : ~(i < m /\ m < j))
                      => MergeAt(j).pre = MergeAt(i).post

\* C25: refresh_status, set_attribute and set_attributes change the store
\* only inside a merge.
C25_StoreOwnership ==
    last.op \in {"refresh_status", "set_attribute", "set_attributes"}
        => MergesAccountForStore

\* what _parse_cloud_message does with the status of the last local merge,
\* from the store that merge started from
CloudTwin ==
    ParseCloudMessage(last.pre, NoBoxes(updates), MergeAt(1).status, TRUE)

\* C26: a status decoded from a local message is merged as the same status
\* reported by the relay is: same delta, same store afterwards, same
\* notification of the subscribers.
C26_OneMergeAlgorithm ==
    last.op = "parse_message" =>
        /\ MergeAt(1).delta = CloudTwin.merge.delta
        /\ attributes = CloudTwin.store
        /\ inbox = CloudTwin.boxes

\* the merges of the replies to commands sent through _send_message
ReplyMerges ==
    {i \in Merges : i > 1 /\ last.trace[i - 1] = [ev |-> "send_cloud", answer |-> "reply"]}

\* C27: the non-empty delta of a decoded reply is committed to the store and
\* handed to every subscriber.
C27_RepliesPropagated ==
    \A i \in ReplyMerges :
        MergeAt(i).delta # Empty =>
            /\ MergeAt(i).post = Merge(MergeAt(i).pre, MergeAt(i).delta)
            /\ \A b \in DOMAIN inbox :
                   \E n \in DOMAIN inbox[b] : inbox[b][n] = MergeAt(i).delta

\* C28: aes_decrypt is only called on a body whose length is a multiple of
\* the cipher's block size.
C28_AesPrecondition ==
    \A i \in DOMAIN last.trace :
        last.trace[i].ev = "aes_decrypt" => last.trace[i].body % BlockSize = 0

\* C29: no step of the session changes the configured query templates.
C29_TemplatesReadOnly == [][cfg'.queries = cfg.queries]_vars

\* a refresh of a 0xD9 device sent a query with db_location, and its
\* template has none
C29_Witness ==
    /\ cfg.device_type = D9
    /\ last.op \in {"refresh_status", "set_attribute", "set_attributes"}
    /\ \E i \in DOMAIN last.trace :
           /\ last.trace[i].ev = "get_device_status"
           /\ "db_location" \in DOMAIN last.trace[i].query
    /\ \A i \in DOMAIN cfg.queries : "db_location" \notin DOMAIN cfg.queries[i]

\* the last operation asked the codec for nothing and sent no command
NoLocalBuild ==
    \A i \in DOMAIN last.trace :
        last.trace[i].ev \notin {"build_query", "build_control", "send_cloud"}

\* C30: without a codec no operation raises or builds a command: a control
\* of a known attribute goes to the relay, a refresh sends nothing, and a
\* socket read merges nothing.
C30_AbsentCodec ==
    ~cfg.lua /\ last # Idle =>
        /\ ~last.raised
        /\ NoLocalBuild
        /\ (last.op = "set_attribute" /\ Changed \subseteq DOMAIN last.pre)
               => \E i \in DOMAIN last.trace : last.trace[i].ev = "send_device_control"
        /\ last.op = "receive" => Merges = {} /\ attributes = last.pre

----------------------------------------------------------------------------
\* _get_or_login_cloud (__init__.py lines 177-225). The callers are coroutines
\* of one event loop: each runs until its next await (the lock at line 191,
\* list_home at lines 195 and 216, login at line 211) and is resumed with the
\* answer. A cloud object is named by the number of the caller that made it.

MaxCallers == 3     \* calls of _get_or_login_cloud started

Accounts == {"acc1", "acc2"}

\* asyncio.Lock() as line 187 makes it
Unlocked == [locked |-> FALSE, waiters |-> <<>>]

\* lines 186-189
LockOf(account) == Get(login_locks, account, Unlocked)

\* asyncio.Lock.acquire returns at once when the lock is free and nobody
\* waits for it (the mutant lets every caller in)
FreeAlways(lock) == TRUE

Free(lock) == ~lock.locked /\ lock.waiters = <<>>

Pending == [kind |-> "pending", cloud |-> 0]
NoneNone == [kind |-> "none", cloud |-> 0]       \* return None, None
Escaped == [kind |-> "raised", cloud |-> 0]      \* an exception left the call
Session(cloud) == [kind |-> "session", cloud |-> cloud]

\* a call before it holds the lock: what it found and what it was answered
\* is recorded as it goes, and how many calls for the account were in flight
\* when it started
NewCaller(account) ==
    [account |-> account, pc |-> "lock", miss |-> FALSE, cached |-> 0,
     cloud |-> 0, probe |-> "none", login |-> "none", list |-> "none",
     result |-> Pending,
     ahead |-> Cardinality({i \in DOMAIN callers :
                               /\ callers[i].account = account
                               /\ callers[i].pc # "done"})]

Out(c, cache, released) == [caller |-> c, cache |-> cache, released |-> released]

\* the call returns (or raises) and the async with block releases the lock
Give(c, cache, result) ==
    Out([c EXCEPT !.pc = "done", !.result = result], cache, TRUE)

Remove(cache, account) == [k \in DOMAIN cache \ {account} |-> cache[k]]

\* lines 203-211: made tells whether get_midea_cloud returned a cloud object
Relogin(c, i, cache, made) ==
    IF ~made THEN Give(c, cache, NoneNone)
    ELSE Out([c EXCEPT !.pc = "login", !.cloud = i, !.login = "called"],
             cache, FALSE)

\* lines 192-195: the caller holds the lock
Entered(c, i, cache, made) ==
    IF c.account \in DOMAIN cache
    THEN Out([c EXCEPT !.pc = "probe", !.cached = cache[c.account].cloud,
                       !.probe = "called"], cache, FALSE)
    ELSE Relogin([c EXCEPT !.miss = TRUE], i, cache, made)

\* lines 195-201 (the mutant returns the cached session whatever the probe
\* said)
ProbedUnchecked(c, i, cache, out, made) ==
    Give([c EXCEPT !.probe = IF out = "homes" THEN "ok" ELSE out], cache,
         Session(c.cached))

Probed(c, i, cache, out, made) ==
    CASE out = "homes" -> Give([c EXCEPT !.probe = "ok"], cache, Session(c.cached))
      [] out = "empty" -> Relogin([c EXCEPT !.probe = "empty"], i, cache, made)
      [] OTHER -> Relogin([c EXCEPT !.probe = "raise"], i,
                          Remove(cache, c.account), made)

\* lines 211-213
LoggedIn(c, cache, out) ==
    CASE out = "ok" -> Out([c EXCEPT !.pc = "list", !.login = "ok",
                                     !.list = "called"], cache, FALSE)
      [] out = "fail" -> Give([c EXCEPT !.login = "fail"], cache, NoneNone)
      [] OTHER -> Give([c EXCEPT !.login = "raise"], cache, Escaped)

\* lines 215-225
Listed(c, cache, out) ==
    CASE out = "homes" -> Give([c EXCEPT !.list = "ok"],
                               Put(cache, c.account, [cloud |-> c.cloud]),
                               Session(c.cloud))
      [] out = "empty" -> Give([c EXCEPT !.list = "empty"], cache, NoneNone)
      [] OTHER -> Give([c EXCEPT !.list = "raise"], cache, NoneNone)

ListAnswers == {"homes", "empty", "raise"}
LoginAnswers == {"ok", "fail", "raise"}

\* a new caller found the lock free and ran to r
Started(account, r) ==
    /\ callers' = Append(callers, r.caller)
    /\ cloud_cache' = r.cache
    /\ login_locks' = Put(login_locks, account,
                          [LockOf(account) EXCEPT !.locked = ~r.released])
    /\ UNCHANGED <<devicevars, entries, flows>>

\* a new caller waits for the lock
Queued(account) ==
    /\ callers' = Append(callers, NewCaller(account))
    /\ login_locks' = Put(login_locks, account,
                          [LockOf(account) EXCEPT
                               !.waiters = Append(@, Len(callers) + 1)])
    /\ UNCHANGED <<devicevars, cloud_cache, entries, flows>>

CallGetOrLoginCloud ==
    /\ Len(callers) < MaxCallers
    /\ \E account \in Accounts, made \in BOOLEAN :
           IF Free(LockOf(account))
           THEN Started(account, Entered(NewCaller(account), Len(callers) + 1,
                                         cloud_cache, made))
           ELSE Queued(account)

\* the first waiter of a released lock takes it and runs to r
Woken(i, r) ==
    /\ callers' = [callers EXCEPT ![i] = r.caller]
    /\ cloud_cache' = r.cache
    /\ login_locks' = [login_locks EXCEPT ![callers[i].account] =
                           [locked |-> ~r.released, waiters |-> Tail(@.waiters)]]
    /\ UNCHANGED <<devicevars, entries, flows>>

Wake ==
    \E i \in DOMAIN callers, made \in BOOLEAN :
        /\ callers[i].pc = "lock"
        /\ ~login_locks[callers[i].account].locked
        /\ Head(login_locks[callers[i].account].waiters) = i
        /\ Woken(i, Entered(callers[i], i, cloud_cache, made))

\* caller i, holding the lock, ran from an answer to r
Stepped(i, r) ==
    /\ callers' = [callers EXCEPT ![i] = r.caller]
    /\ cloud_cache' = r.cache
    /\ login_locks' = IF r.released
                      THEN [login_locks EXCEPT ![callers[i].account].locked = FALSE]
                      ELSE login_locks
    /\ UNCHANGED <<devicevars, entries, flows>>

ProbeAnswered ==
    \E i \in DOMAIN callers, out \in ListAnswers, made \in BOOLEAN :
        /\ callers[i].pc = "probe"
        /\ Stepped(i, Probed(callers[i], i, cloud_cache, out, made))

LoginAnswered ==
    \E i \in DOMAIN callers, out \in LoginAnswers :
        /\ callers[i].pc = "login"
        /\ Stepped(i, LoggedIn(callers[i], cloud_cache, out))

ListAnswered ==
    \E i \in DOMAIN callers, out \in ListAnswers :
        /\ callers[i].pc = "list"
        /\ Stepped(i, Listed(callers[i], cloud_cache, out))

InitLogin == InitSession({CHOOSE c \in GenericConfigs : TRUE})

NextLogin ==
    \/ CallGetOrLoginCloud
    \/ Wake
    \/ ProbeAnswered
    \/ LoginAnswered
    \/ ListAnswered

SpecLogin == InitLogin /\ [][NextLogin]_vars

----------------------------------------------------------------------------
\* Observations of the login cache

ProbeFailed(c) == c.probe \in {"empty", "raise"}

\* some caller's login and home listing both succeeded for the session cached
\* under account
CachedAfterLogin(account) ==
    \E i \in DOMAIN callers :
        /\ callers[i].account = account
        /\ callers[i].cloud = cloud_cache[account].cloud
        /\ callers[i].login = "ok"
        /\ callers[i].list = "ok"

\* C31: Login cache rule. A call invokes cloud.login() only when it found no
\* cached session for the account or the probe of the cached session failed;
\* a call whose probe failed never returns the cached session; every cached
\* session was cached after a login and a non-empty home listing succeeded.
C31_LoginCacheRule ==
    /\ \A i \in DOMAIN callers :
           /\ callers[i].login # "none" =>
                  callers[i].miss \/ ProbeFailed(callers[i])
           /\ ProbeFailed(callers[i]) /\ callers[i].result.kind = "session" =>
                  callers[i].result.cloud # callers[i].cached
    /\ \A account \in DOMAIN cloud_cache : CachedAfterLogin(account)

\* a call found a cached session, its probe failed, and the call logged in
\* again and returned the new session
C31_Witness ==
    \E i \in DOMAIN callers :
        /\ ProbeFailed(callers[i])
        /\ callers[i].result.kind = "session"
        /\ callers[i].login = "ok"
        /\ cloud_cache[callers[i].account].cloud = i

\* the calls made for account
CallsFor(account) == {i \in DOMAIN callers : callers[i].account = account}

\* the calls for account that are past the lock and have not returned
Inside(account) ==
    {i \in CallsFor(account) : callers[i].pc \in {"probe", "login", "list"}}

\* the calls for account that invoked cloud.login()
Logins(account) == {i \in CallsFor(account) : callers[i].login # "none"}

\* the cloud worked for every call made for account so far
Working(account) ==
    \A i \in CallsFor(account) :
        /\ callers[i].probe \in {"none", "called", "ok"}
        /\ callers[i].login \in {"none", "called", "ok"}
        /\ callers[i].list \in {"none", "called", "ok"}
        /\ callers[i].result.kind \in {"pending", "session"}

\* C36: Single login under concurrency. For every account at most one call
\* is between taking the lock and returning; when the cache started empty and
\* the cloud works, cloud.login() is invoked at most once for the account,
\* exactly once as soon as a call has returned, and all calls that returned
\* hold the same session.
C36_SingleLogin ==
    \A account \in Accounts :
        /\ Cardinality(Inside(account)) <= 1
        /\ Working(account) =>
               /\ Cardinality(Logins(account)) <= 1
               /\ \A i, j \in CallsFor(account) :
                      callers[i].pc = "done" /\ callers[j].pc = "done" =>
                          callers[i].result = callers[j].result
               /\ \A i \in CallsFor(account) :
                      callers[i].pc = "done" => Cardinality(Logins(account)) = 1

\* three calls for one account were in flight together (the second and the
\* third waited for the lock) and all three have returned a session
C36_Witness ==
    \E account \in Accounts :
        /\ Working(account)
        /\ Cardinality(CallsFor(account)) = MaxCallers
        /\ \A i \in CallsFor(account) :
               callers[i].pc = "done" /\ callers[i].result.kind = "session"
        /\ \E i \in CallsFor(account) : callers[i].ahead = MaxCallers - 1

\* call i returns (None, None) in this step
ReturnsNone(i) ==
    /\ i \in DOMAIN callers => callers[i].pc # "done"
    /\ callers'[i].pc = "done"
    /\ callers'[i].result = NoneNone

\* C37: No stale session after failure. Whenever a call returns (None, None)
\* for an account, _CLOUD_CACHE holds no entry for that account as the call
\* returns.
C37_NoStaleAfterFailure ==
    [][\A i \in DOMAIN callers' :
           ReturnsNone(i) => callers'[i].account \notin DOMAIN cloud_cache']_vars

----------------------------------------------------------------------------
\* load_device_config (__init__.py lines 92-118): the mapping module of the
\* device type is DEVICE_MAPPING, a dict kept in insertion order (a sequence
\* of key/config pairs). Strings are sequences of characters; a key is a str
\* (an sn8, a pattern or "default") or a tuple of sn8s.

MaxSn8 == 2         \* characters of an sn8 (8 on a real device)
MaxMappings == 2    \* entries of DEVICE_MAPPING besides "default"

Digits == {"0", "1"}

Sn8s == [1..MaxSn8 -> Digits]

Default == <<"d", "e", "f", "a", "u", "l", "t">>

StrKey(s) == [t |-> "str", s |-> s]
TupleKey(items) == [t |-> "tuple", items |-> items]

\* re.match(pattern, string) for patterns of literals and dots: the pattern
\* has to match at the start of the string, not all of it
ReMatch(pattern, string) ==
    /\ Len(pattern) <= Len(string)
    /\ \A i \in 1..Len(pattern) : pattern[i] = "." \/ pattern[i] = string[i]

\* line 106
KeyMatches(key, sn8) ==
    IF key.t = "tuple" THEN sn8 \in key.items
    ELSE key.s = sn8 \/ ReMatch(key.s, sn8)

\* lines 105-108: the config of the first key that matches, {} when none does
RECURSIVE FirstMatch(_, _)
FirstMatch(mapping, sn8) ==
    IF mapping = <<>> THEN Empty
    ELSE IF KeyMatches(Head(mapping).key, sn8) THEN Head(mapping).config
    ELSE FirstMatch(Tail(mapping), sn8)

HasDefault(mapping) == \E i \in DOMAIN mapping : mapping[i].key = StrKey(Default)

DefaultOf(mapping) ==
    mapping[CHOOSE i \in DOMAIN mapping : mapping[i].key = StrKey(Default)].config

\* lines 109-113
Fallback(mapping, json_data) ==
    IF json_data # Empty THEN json_data
    ELSE IF HasDefault(mapping) THEN DefaultOf(mapping)
    ELSE json_data

\* lines 101-118: module.present is FALSE when the import raises
\* ModuleNotFoundError
LoadDeviceConfig(module, sn8) ==
    IF ~module.present THEN Empty
    ELSE Fallback(module.mapping, FirstMatch(module.mapping, sn8))

\* the configs a mapping module holds
Named(n) == [name |-> PyStr(n)]
Configs == {Empty, Named("m1"), Named("m2")}

Patterns == UNION {[1..n -> Digits \cup {"."}] : n \in 1..MaxSn8}

Keys == {StrKey(p) : p \in Patterns}
        \cup {TupleKey({a, b}) : a, b \in Sn8s}

MappingEntries == {[key |-> k, config |-> c] : k \in Keys, c \in Configs}

\* DEVICE_MAPPING without its "default" entry: dict keys are distinct
KeyedMappings ==
    UNION {{m \in [1..n -> MappingEntries] :
                \A i, j \in 1..n : i # j => m[i].key # m[j].key} : n \in 0..MaxMappings}

DefaultEntries == {<<>>} \cup {<<[key |-> StrKey(Default), config |-> Named("dflt")]>>}

Modules ==
    {[present |-> FALSE, mapping |-> <<>>]}
    \cup {[present |-> TRUE, mapping |-> m \o d] : m \in KeyedMappings, d \in DefaultEntries}

DoLoadDeviceConfig ==
    /\ last = Idle
    /\ \E module \in Modules, sn8 \in Sn8s :
           Finish("load_device_config", <<[module |-> module, sn8 |-> sn8]>>,
                  Returned(Start, LoadDeviceConfig(module, sn8)))

InitMapping == InitSession({CHOOSE c \in GenericConfigs : TRUE})

NextMapping == DoLoadDeviceConfig \/ Return

SpecMapping == InitMapping /\ [][NextMapping]_vars

\* Observations of load_device_config
Loaded == last.op = "load_device_config"
LoadedMapping == last.arg[1].module.mapping
LoadedResult == last.trace[Len(last.trace)].result

\* the configs of the keys of the loaded module that match the sn8
MatchingConfigs ==
    {LoadedMapping[i].config : i \in {j \in DOMAIN LoadedMapping :
         /\ LoadedMapping[j].key # StrKey(Default)
         /\ KeyMatches(LoadedMapping[j].key, last.arg[1].sn8)}}

\* C32: Mapping resolution with default fallback. load_device_config returns
\* the mapping of a key that matches the sn8; the "default" mapping only
\* when no key matches; the empty mapping when there is neither a match nor
\* a default (or no module).
C32_MappingResolution ==
    Loaded =>
        IF MatchingConfigs # {} THEN LoadedResult \in MatchingConfigs
        ELSE IF HasDefault(LoadedMapping) THEN LoadedResult = DefaultOf(LoadedMapping)
        ELSE LoadedResult = Empty

----------------------------------------------------------------------------
\* _fetch_v2_message on arbitrary buffers (device.py lines 384-397): the bytes
\* of the length field need not describe a frame

MaxBuffer == 8      \* bytes of a buffer handed to _fetch_v2_message

\* values of the low byte of the length field: nothing, less than a header,
\* a frame that fits, a frame longer than the buffer
LowBytes == 0..(MaxBuffer + 1)

\* byte strings of n to m bytes
BytesOfLen(n, m) == UNION {[1..k -> Bytes] : k \in n..m}

\* buffers too short to hold the low byte of the length field, and the others
Buffers ==
    BytesOfLen(0, HeaderLen - 2)
    \cup {p \o <<l>> \o t : p \in BytesOfLen(HeaderLen - 2, HeaderLen - 2),
                            l \in LowBytes,
                            t \in BytesOfLen(0, MaxBuffer - HeaderLen + 1)}

\* the call returns its pair, or never leaves the while loop of line 386
Fetched(ms, r) ==
    IF r.diverges THEN Log(ms, [ev |-> "loops", rest |-> r.rest])
    ELSE Returned(ms, [frames |-> r.frames, rest |-> r.rest])

DoFetchV2Message ==
    /\ last = Idle
    /\ \E msg \in Buffers :
           Finish("_fetch_v2_message", msg, Fetched(Start, FetchV2Message(msg)))

InitFetch == InitSession({CHOOSE c \in GenericConfigs : TRUE})

NextFetch == DoFetchV2Message \/ Return

SpecFetch == InitFetch /\ [][NextFetch]_vars

\* C33: Frame reassembly terminates. Every call of _fetch_v2_message
\* returns, whatever its buffer holds.
C33_FetchTerminates ==
    last.op = "_fetch_v2_message" =>
        last.trace[Len(last.trace)].ev = "return"

----------------------------------------------------------------------------
\* the store holds a value (not None) under key
Holds(key) == key \in DOMAIN attributes /\ attributes[key] # None

\* C34: Label matches location (device type 0xD9). Whenever the store holds
\* both db_location and db_location_selection, the label is "left" exactly
\* when the location is 1 and "right" exactly when the location is 2.
C34_LabelMatchesLocation ==
    cfg.device_type = D9 /\ Holds("db_location") /\ Holds("db_location_selection") =>
        /\ attributes["db_location_selection"] = PyStr("left")
               <=> attributes["db_location"] = PyInt(1)
        /\ attributes["db_location_selection"] = PyStr("right")
               <=> attributes["db_location"] = PyInt(2)

----------------------------------------------------------------------------
IsControl(e) == e.ev \in {"build_control", "send_device_control"}

\* what a call did to the device and to the store: the control payloads it
\* handed over, with their path, and the store it left
Effect(store, trace) == [store |-> store, controls |-> SelectSeq(trace, IsControl)]

\* the effects set_attributes({k: v}) has from the state the last call
\* started from, whatever the relay and the codec answer
BatchEffects ==
    UNION {{Effect(SetAttributes(Before, last.arg, outs, ctl).store,
                   SetAttributes(Before, last.arg, outs, ctl).trace)
              : outs \in IF cfg.device_type = D9 /\ OdHas(last.arg, "db_location_selection")
                         THEN RefreshOutcomes ELSE {NoRefresh}}
             : ctl \in ControlOutcomes}

\* C35: Single and batch control agree. For a known attribute k,
\* set_attribute(k, v) sends the control payloads and leaves the store that
\* set_attributes({k: v}) sends and leaves from the same state.
C35_SingleBatchAgree ==
    /\ last.op = "set_attribute"
    /\ last.arg[1].k \in DOMAIN last.pre
    /\ ~last.raised
    => Effect(attributes, last.trace) \in BatchEffects

----------------------------------------------------------------------------
\* send_command (device.py lines 370-379) is a plain function. _build_send is
\* a coroutine function: the call at line 373 makes a coroutine object and
\* runs none of its body; nothing awaits the object or hands it to the event
\* loop, so no exception of the body can reach the except clause either.

CommandTypes == {2, 3}      \* cmd_type: query, set

\* line 373: the coroutine object is made and dropped
SendCommand(ms, cmd) ==
    Log(ms, [ev |-> "coroutine", of |-> "_build_send", cmd |-> cmd, awaited |-> FALSE])

DoSendCommand ==
    /\ last = Idle
    /\ \E cmd_type \in CommandTypes, cmd_body \in Bodies :
           Finish("send_command", <<>>,
                  SendCommand(Start, [cmd_type |-> cmd_type, cmd_body |-> cmd_body]))

InitCommand == InitSession(InboundConfigs)

NextCommand == Next \/ DoSendCommand

SpecCommand == InitCommand /\ [][NextCommand]_vars

\* C38: send_command sends. Every call of send_command hands the command to
\* the transport (the send of _send_message runs) and raises nothing.
C38_SendCommandSends ==
    last.op = "send_command" =>
        /\ \E i \in DOMAIN last.trace : last.trace[i].ev = "send_cloud"
        /\ ~last.raised

----------------------------------------------------------------------------
\* the last operation was a handshake on an open socket
Shook == last.op = "authenticate" /\ last.arg.open

\* C39: Handshake key input is complete. Whenever _authenticate derives a
\* session key, tcp_key was handed the 64 bytes at offsets 8..71 of the
\* response; a response too short to hold that sub-range is rejected with
\* AuthException.
C39_KeyInputComplete ==
    Shook =>
        /\ security # NoKey =>
               \E i \in DOMAIN last.trace :
                   last.trace[i] = [ev |-> "tcp_key", len |-> KeyRangeEnd - KeyRangeStart]
        /\ last.arg.n < KeyRangeEnd =>
               last.trace = <<[ev |-> "raise", exc |-> "AuthException"]>>

----------------------------------------------------------------------------
\* ConfigFlow._create_entries (config_flow.py lines 166-265) for the flows of
\* one account. A flow is a coroutine: it runs to its next suspension (the
\* setup inside async_add at line 251) and is resumed later; other flows run
\* in between. The registry keeps entries in the order they were added;
\* async_add adds an entry whatever its unique_id. An entry's unique_id is
\* account_id + home id: with one account it is named by the home.

MaxFlows == 2       \* config flows started

Homes == {1, 2, 3}  \* the homes list_home reported

\* what the multi-select form hands over: some homes, each once, in any order
Selections ==
    UNION {{s \in [1..n -> Homes] : \A i, j \in 1..n : i # j => s[i] # s[j]}
             : n \in 1..Cardinality(Homes)}

\* by: the flow that wrote the entry's title and data last (0: an earlier one)
Entry(home, by) == [unique_id |-> home, by |-> by]

\* line 198
UniqueIds(es) == {es[i].unique_id : i \in DOMAIN es}

\* lines 200-217: async_update_entry on the first entry with that unique_id
UpdateEntry(es, unique_id, f) ==
    [i \in DOMAIN es |->
        IF es[i].unique_id = unique_id
           /\ \A j \in 1..(i - 1) : es[j].unique_id # unique_id
        THEN [es[i] EXCEPT !.by = f] ELSE es[i]]

RECURSIVE UpdateExisting(_, _, _, _)
UpdateExisting(es, selected, existing, f) ==
    IF selected = <<>> THEN es
    ELSE UpdateExisting(IF Head(selected) \in existing
                        THEN UpdateEntry(es, Head(selected), f) ELSE es,
                        Tail(selected), existing, f)

\* lines 219-222: the selected homes without an entry in the snapshot
RECURSIVE NewEntries(_, _)
NewEntries(selected, existing) ==
    IF selected = <<>> THEN <<>>
    ELSE IF Head(selected) \in existing THEN NewEntries(Tail(selected), existing)
    ELSE <<Head(selected)>> \o NewEntries(Tail(selected), existing)

\* the registry without its first entry of that unique_id
RECURSIVE RemoveFirst(_, _)
RemoveFirst(es, unique_id) ==
    IF es = <<>> THEN <<>>
    ELSE IF Head(es).unique_id = unique_id THEN Tail(es)
    ELSE <<Head(es)>> \o RemoveFirst(Tail(es), unique_id)

\* the flow ended with result; es is the registry it leaves
FlowEnded(flow, es, result) ==
    [flow |-> [flow EXCEPT !.pc = "done", !.result = result, !.todo = <<>>],
     entries |-> es]

\* lines 254-265: async_create_entry ends the flow; the flow manager replaces
\* an entry that has the flow's unique_id by the new one
CreateEntry(flow, es, f) ==
    FlowEnded([flow EXCEPT !.created = @ \cup {flow.unique_id}],
              Append(RemoveFirst(es, flow.unique_id), Entry(flow.unique_id, f)),
              "create_entry")

\* lines 230-252: async_add puts the next additional entry into the registry
\* and suspends for its setup; after the last one the flow creates its own
AddNext(flow, es, f) ==
    IF flow.todo = <<>> THEN CreateEntry(flow, es, f)
    ELSE [flow |-> [flow EXCEPT !.pc = "add", !.todo = Tail(@),
                                !.created = @ \cup {Head(flow.todo)}],
          entries |-> Append(es, Entry(Head(flow.todo), f))]

\* another flow in progress has that unique_id
InProgress(unique_id) ==
    \E g \in DOMAIN flows : flows[g].pc # "done" /\ flows[g].unique_id = unique_id

\* lines 224-228: nothing new aborts the flow; async_set_unique_id aborts it
\* when another flow in progress has the unique_id of the first new entry
Claimed(flow, es, new_entries, f) ==
    IF new_entries = <<>> THEN FlowEnded(flow, es, "abort")
    ELSE IF InProgress(Head(new_entries))
    THEN FlowEnded(flow, es, "already_in_progress")
    ELSE AddNext([flow EXCEPT !.unique_id = Head(new_entries),
                              !.todo = Tail(new_entries)], es, f)

\* lines 166-222 on the registry as the flow finds it
CreateEntries(selected, f) ==
    Claimed([selected |-> selected, pc |-> "run", existing |-> UniqueIds(entries),
             unique_id |-> 0, todo |-> <<>>, created |-> {}, result |-> "none"],
            UpdateExisting(entries, selected, UniqueIds(entries), f),
            NewEntries(selected, UniqueIds(entries)), f)

\* the user confirms the selection of a new flow
Confirm ==
    /\ Len(flows) < MaxFlows
    /\ \E selected \in Selections :
           /\ flows' = Append(flows, CreateEntries(selected, Len(flows) + 1).flow)
           /\ entries' = CreateEntries(selected, Len(flows) + 1).entries
    /\ UNCHANGED <<devicevars, login_locks, cloud_cache, callers>>

\* the setup async_add waited for is over
Resume ==
    \E f \in DOMAIN flows :
        /\ flows[f].pc = "add"
        /\ flows' = [flows EXCEPT ![f] = AddNext(flows[f], entries, f).flow]
        /\ entries' = AddNext(flows[f], entries, f).entries
        /\ UNCHANGED <<devicevars, login_locks, cloud_cache, callers>>

\* the registry before the flows: entries of earlier flows, one per home
EarlierEntries ==
    {[i \in DOMAIN s |-> Entry(s[i], 0)] : s \in Selections \cup {<<>>}}

InitFlows ==
    /\ cfg = CHOOSE c \in GenericConfigs : TRUE
    /\ attributes = InitAttributes(cfg)
    /\ updates = 0
    /\ inbox = NoBoxes(0)
    /\ last = Idle
    /\ buffer = <<>>
    /\ security = NoKey
    /\ tasks = <<>>
    /\ wire = NoWire
    /\ login_locks = <<>>
    /\ cloud_cache = <<>>
    /\ callers = <<>>
    /\ flows = <<>>
    /\ entries \in EarlierEntries

NextFlows == Confirm \/ Resume

SpecFlows == InitFlows /\ [][NextFlows]_vars

\* Observations of the flows
AllDone == \A f \in DOMAIN flows : flows[f].pc = "done"

Unique ==
    \A i, j \in DOMAIN entries :
        i # j => entries[i].unique_id # entries[j].unique_id

\* the selected homes of flow f that had an entry when it looked
Had(f) == SeqToSet(flows[f].selected) \cap flows[f].existing

\* C40: Config entries are unique per home. Once the flows have run, no two
\* entries share a unique_id; a flow made no entry for a selected home that
\* had one; a flow whose selected homes all had an entry aborted and made
\* none.
C40_EntriesUnique ==
    AllDone =>
        /\ Unique
        /\ \A f \in DOMAIN flows :
               /\ flows[f].created \cap Had(f) = {}
               /\ SeqToSet(flows[f].selected) \subseteq flows[f].existing =>
                      flows[f].result = "abort" /\ flows[f].created = {}

====
